---- MODULE Spec2Model ----
(***************************************************************************)
(* Model of the API-to-graph synchronisation template.                     *)
(*                                                                         *)
(*   - the API client: authenticate, _make_request (pagination loop) and   *)
(*     _make_single_request (retry loop with re-authentication/backoff);   *)
(*   - the graph merge layer: sync_customer and sync_user on top of        *)
(*     Neo4jBase._execute_query, batch_merge_nodes, _execute_batch and     *)
(*     the relationship methods, against a store of nodes and              *)
(*     relationships, and the utility extract_nested_guid;                 *)
(*   - the orchestrator: its construction, the stages of run_full_sync     *)
(*     and the entity sync loop of its template;                           *)
(*   - the analytics: the period hierarchy of AggregationNodes, the link   *)
(*     of facts to months, and the recomputations of Denormalization and   *)
(*     ProjectMetrics.                                                     *)
(***************************************************************************)
EXTENDS Integers, Sequences, FiniteSets, TLC

\* ------------------------------------------------------------------ bounds

\* largest configured max_retries explored (SYNC_MAX_RETRIES is not validated,
\* so 0 is a value the program can run with)
MaxRetries == 3
\* longest page sequence the server holds for one endpoint
MaxPages == 3
\* most items on one page
MaxItems == 1
\* most nodes the store may hold
MaxNodes == 3
MaxBatchItems == 3
MaxBatchSize == 2
MaxYears == 2
MaxRels == 3
MaxOps == 2
\* years over which the period hierarchy is created
MaxPeriodYears == 1

\* ------------------------------------------------------------ configuration

\* max_retries as loaded when SYNC_MAX_RETRIES is not set
DefaultMaxRetries == 3

\* ------------------------------------------------------------- the server

\* HTTP statuses the server may answer a GET with
Statuses == {200, 401, 404, 429, 503}

\* a GET either gets an HTTP response or fails in transport
Responses ==
  [kind : {"http"}, status : Statuses] \cup {[kind |-> "net", status |-> 0]}

\* bearer tokens the authentication endpoint may issue
Tokens == {"t1", "t2"}

\* outcome of the POST to the authentication endpoint
AuthOutcomes ==
  [kind : {"ok"}, token : Tokens]
    \cup {[kind |-> "HTTPError", token |-> "None"],
          [kind |-> "ConnectionError", token |-> "None"]}

\* the page sequences a server may hold: the item count of each page
PageCounts == UNION {[1..k -> 0..MaxItems] : k \in 1..MaxPages}

\* the caller's params argument of _make_request: a dict as a set of pairs
CallerParams == {{}, {<<"filter", <<"val", 1>>>>}}

NoCursor == <<>>
Cursor(i) == <<"cur", i>>

\* dict helpers (a dict is a set of <<key, value>> pairs)
DictHas(d, k) == \E p \in d : p[1] = k
DictGet(d, k, default) ==
  IF DictHas(d, k) THEN (CHOOSE p \in d : p[1] = k)[2] ELSE default
DictSet(d, k, v) == {p \in d : p[1] # k} \cup {<<k, v>>}

\* the page a GET addresses: the first one without pageToken
PageIndex(params) ==
  LET t == DictGet(params, "pageToken", NoCursor)
  IN IF t = NoCursor THEN 1 ELSE t[2]

\* items of page i of the server
PageItems(pgs, i) == [j \in 1..pgs[i] |-> <<"item", i, j>>]

\* body and NextPageToken header of a 2xx answer
ServerData(pgs, params) == {<<"items", PageItems(pgs, PageIndex(params))>>}
ServerCursor(pgs, params) ==
  IF PageIndex(params) < Len(pgs) THEN Cursor(PageIndex(params) + 1) ELSE NoCursor

\* --------------------------------------------------------------- variables

VARIABLES
  max_retries,      \* config.max_retries
  token,            \* config.token ("None" before the first authentication)
  authHeader,       \* session.headers["Authorization"] (<<>> when absent)
  issued,           \* server side: the token most recently issued
  lastAuth,         \* the most recent authenticate() call: inputs and result
  fpc,              \* position of _make_request
  pages,            \* server side: item counts of the endpoint's pages
  params,           \* the caller's params argument
  paginated,        \* the paginated argument
  all_items,        \* _make_request: all_items
  next_page_token,  \* _make_request: next_page_token
  page_num,         \* _make_request: page_num
  callLog,          \* params of each _make_single_request call of this fetch
  rpc,              \* position of _make_single_request
  reqParams,        \* _make_single_request: params
  attempt,          \* _make_single_request: the loop variable
  getLog,           \* the GETs issued by the current call, with their answers
  sleepLog,         \* the time.sleep calls of the current call
  authLog,          \* the authenticate() results within the current call
  error,            \* the exception the current call raised
  ret,              \* the value the current call returned
  nodes,            \* store: the nodes
  nextId,           \* store: next internal node id
  syncResult,       \* outcome of the last sync_customer call
  mergeHist,        \* history: the last sync_customer call that succeeded
  rels,             \* store: the relationships
  nextRelId,        \* store: next internal relationship id
  lastOp,           \* history: the last operation of the graph layer, the key
                    \* it wrote and how it ended
  linkRet,          \* the value the last relationship method returned
  bpc,              \* position of batch_merge_nodes
  batchLabel,       \* batch_merge_nodes: label
  batchItems,       \* batch_merge_nodes: items
  batch_size,       \* batch_merge_nodes: batch_size
  bi,               \* batch_merge_nodes: the next value of the loop variable i
  total_merged,     \* batch_merge_nodes: total_merged
  chunkLog,         \* the batches handed to session.run by the current call
  batchErr,         \* the exception the current call raised
  batchRet,         \* the value the current call returned
  batchBefore,      \* history: the nodes when the current call started
  tpc,              \* position of _execute_batch
  queries,          \* _execute_batch: queries (the $year of each)
  ti,               \* _execute_batch: number of queries run so far
  txNodes,          \* the nodes as the open transaction sees them
  txNextId,         \* next internal node id within the open transaction
  execErr,          \* the exception the current _execute_batch call raised
  execRet,          \* the value the current _execute_batch call returned
  enable_metrics,   \* sync_config.enable_metrics
  enable_analytics, \* sync_config.enable_analytics
  create_indexes,   \* run_full_sync: create_indexes
  dry_run,          \* run_full_sync: dry_run
  runPc,            \* position of run_full_sync
  stage,            \* the stage run_full_sync is in
  stageLog,         \* history: the stages entered, in order
  pending,          \* the return value or exception that is leaving the try
  runRet,           \* how run_full_sync ended
  connOpen,         \* the store connection (Neo4jBase.driver) is open
  storeLog,         \* history: store operations of the run: writes, close
  excIn,            \* history: the exception a stage raised, and the stage
  lpc,              \* position of the entity sync loop (_sync_customers)
  customers,        \* _sync_customers: customers (the fetched items)
  li,               \* _sync_customers: number of items the loop has taken
  customers_synced, \* stats["customers_synced"]
  customers_failed, \* stats["customers_failed"]
  itemLog,          \* history: how the sync of each item taken ended
  periodRet,        \* what the last create_*_nodes call returned, or that it raised
  build,            \* history: how far the build over one year range has come
  analyticsOp,      \* history: the last analytics call, its arguments and its return
  extractOp,        \* history: the last extract_nested_guid call and how it ended
  ctorOp            \* history: the SyncOrchestrator(...) call, its configs, how it ended

configVars == <<max_retries>>
sessionVars == <<token, authHeader, issued, lastAuth>>
fetchVars == <<fpc, pages, params, paginated, all_items, next_page_token,
               page_num, callLog>>
requestVars == <<rpc, reqParams, attempt, getLog, sleepLog, authLog, error, ret>>
graphVars == <<rels, nextRelId, lastOp, linkRet>>
batchVars == <<bpc, batchLabel, batchItems, batch_size, bi, total_merged, chunkLog,
               batchErr, batchRet, batchBefore>>
txVars == <<tpc, queries, ti, txNodes, txNextId, execErr, execRet>>
storeVars == <<nodes, nextId, syncResult, mergeHist, graphVars, batchVars, txVars>>
runVars == <<enable_metrics, enable_analytics, create_indexes, dry_run, runPc,
             stage, stageLog, pending, runRet, connOpen, storeLog, excIn>>
loopVars == <<lpc, customers, li, customers_synced, customers_failed, itemLog>>
periodVars == <<periodRet, build>>
analyticsVars == <<analyticsOp>>
utilVars == <<extractOp, ctorOp>>
extVars == <<loopVars, periodVars, analyticsVars, utilVars>>
vars == <<configVars, sessionVars, fetchVars, requestVars, storeVars, runVars, extVars>>

NoError == [type |-> "none", status |-> 0]
NoReturn == [data |-> {}, next |-> NoCursor, valid |-> FALSE]
NoAuth == [called |-> FALSE, outcome |-> "none", ok |-> FALSE, raised |-> FALSE,
           preToken |-> "None", preHeader |-> <<>>,
           postToken |-> "None", postHeader |-> <<>>]
NoMerge == [rec |-> {}, repeated |-> FALSE, before |-> {}, hadRef |-> FALSE]
NoCount == -1
NoExc == [stage |-> "none", exc |-> "none"]
NoOp == [op |-> "none", label |-> "", guid |-> <<"none">>, result |-> "none",
         failed |-> FALSE]

\* ------------------------------------------------------------ authenticate

Bearer(t) == <<"Bearer", t>>

\* requests' exception classes caught by "except RequestException"
IsRequestException(cls) == cls \in {"HTTPError", "ConnectionError"}

\* variant: the new token is stored but the session header is not updated
authenticateKeepHeader(out, tok, hdr) ==
  IF out.kind = "ok"
  THEN [ok |-> TRUE, raised |-> FALSE, token |-> out.token, header |-> hdr]
  ELSE IF IsRequestException(out.kind)
  THEN [ok |-> FALSE, raised |-> FALSE, token |-> tok, header |-> hdr]
  ELSE [ok |-> FALSE, raised |-> TRUE, token |-> tok, header |-> hdr]

\* authenticate(): the POST, raise_for_status, token and header update
authenticate(out, tok, hdr) ==
  IF out.kind = "ok"
  THEN [ok |-> TRUE, raised |-> FALSE, token |-> out.token,
        header |-> Bearer(out.token)]
  ELSE IF IsRequestException(out.kind)
  THEN [ok |-> FALSE, raised |-> FALSE, token |-> tok, header |-> hdr]
  ELSE [ok |-> FALSE, raised |-> TRUE, token |-> tok, header |-> hdr]

AuthRecord(out, r) ==
  [called |-> TRUE, outcome |-> out.kind, ok |-> r.ok, raised |-> r.raised,
   preToken |-> token, preHeader |-> authHeader,
   postToken |-> r.token, postHeader |-> r.header]

Issued(out) == IF out.kind = "ok" THEN out.token ELSE issued


\* ------------------------------------------------- _make_single_request

\* response.raise_for_status(): an HTTPError for 4xx and 5xx
RaisesForStatus(status) == 400 <= status /\ status < 600

\* variant: every HTTP error but 401 and 429 is taken for a server error
ClassifyAllRetried(resp) ==
  IF resp.kind = "net" THEN "network"
  ELSE IF ~RaisesForStatus(resp.status) THEN "ok"
  ELSE IF resp.status = 401 THEN "unauthorized"
  ELSE IF resp.status = 429 THEN "rate_limited"
  ELSE "server_error"

\* the branch of the try/except the answer of a GET ends in
Classify(resp) ==
  IF resp.kind = "net" THEN "network"
  ELSE IF ~RaisesForStatus(resp.status) THEN "ok"
  ELSE IF resp.status = 401 THEN "unauthorized"
  ELSE IF resp.status = 429 THEN "rate_limited"
  ELSE IF 500 <= resp.status /\ resp.status < 600 THEN "server_error"
  ELSE "other"

\* variant: range(max_retries + 1)
InRangeInclusive(att, max) == att <= max

\* for attempt in range(max_retries): whether the body runs for this attempt
InRange(att, max) == att < max

\* variant: the wait is capped
BackoffCapped(att) == IF 2 ^ att > 2 THEN 2 ELSE 2 ^ att

\* wait_time = 2 ** attempt
Backoff(att) == 2 ^ att

\* variants: the result of the re-authentication is ignored
AfterReauthRaise(ok) == "raise"
AfterReauthContinue(ok) == "continue"

\* after the re-authentication of a 401: continue or re-raise
AfterReauth(ok) == IF ok THEN "continue" ELSE "raise"

\* variant: a 401 that was re-authenticated is retried within the same pass
NextAttemptFreeReauth(att, reauth) == IF reauth THEN att ELSE att + 1

\* "continue": the for loop takes the next value of range(max_retries)
NextAttempt(att, reauth) == att + 1

\* a network error is retried unless this was the last attempt
NetworkRetry(att, max) == att < max - 1

\* what one pass of the loop body does with the answer of its GET
Step(resp, att, max) ==
  LET c == Classify(resp) IN
  IF c = "ok" THEN [act |-> "return", sleep |-> FALSE, reauth |-> FALSE]
  ELSE IF c = "unauthorized" THEN [act |-> "reauth", sleep |-> FALSE, reauth |-> TRUE]
  ELSE IF c \in {"rate_limited", "server_error"}
    THEN [act |-> "continue", sleep |-> TRUE, reauth |-> FALSE]
  ELSE IF c = "other" THEN [act |-> "raise", sleep |-> FALSE, reauth |-> FALSE]
  ELSE IF NetworkRetry(att, max)
    THEN [act |-> "continue", sleep |-> TRUE, reauth |-> FALSE]
  ELSE [act |-> "raise", sleep |-> FALSE, reauth |-> FALSE]

\* the exception "raise" re-raises in an except block
Raised(resp) ==
  IF resp.kind = "net" THEN [type |-> "ConnectionError", status |-> 0]
  ELSE [type |-> "HTTPError", status |-> resp.status]

MaxRetriesError == [type |-> "MaxRetriesExceeded", status |-> 0]

\* one pass of the loop body: the GET, its answer, and the handling
SingleAttempt(resp, out) ==
  /\ rpc = "loop"
  /\ InRange(attempt, max_retries)
  /\ getLog' = Append(getLog, [resp |-> resp, auth |-> authHeader,
                               issued |-> issued, params |-> reqParams,
                               attempt |-> attempt])
  /\ LET s == Step(resp, attempt, max_retries)
         r == authenticate(out, token, authHeader)
         act == IF s.reauth THEN AfterReauth(r.ok) ELSE s.act
     IN /\ IF s.reauth
           THEN /\ token' = r.token
                /\ authHeader' = r.header
                /\ issued' = Issued(out)
                /\ lastAuth' = AuthRecord(out, r)
                /\ authLog' = Append(authLog, r.ok)
           ELSE UNCHANGED <<token, authHeader, issued, lastAuth, authLog>>
        /\ sleepLog' = IF s.sleep
                       THEN Append(sleepLog, [attempt |-> attempt,
                                              wait |-> Backoff(attempt)])
                       ELSE sleepLog
        /\ CASE act = "return" ->
                  /\ rpc' = "returned"
                  /\ ret' = [data |-> ServerData(pages, reqParams),
                             next |-> ServerCursor(pages, reqParams),
                             valid |-> TRUE]
                  /\ UNCHANGED <<attempt, error>>
             [] act = "continue" ->
                  /\ attempt' = NextAttempt(attempt, s.reauth)
                  /\ UNCHANGED <<rpc, ret, error>>
             [] act = "raise" ->
                  /\ rpc' = "raised"
                  /\ error' = Raised(resp)
                  /\ UNCHANGED <<attempt, ret>>
  /\ UNCHANGED <<configVars, extVars, runVars, fetchVars, reqParams, storeVars>>

\* the loop ran out of attempts: raise Exception("Max retries ... exceeded")
SingleExhausted ==
  /\ rpc = "loop"
  /\ ~InRange(attempt, max_retries)
  /\ rpc' = "raised"
  /\ error' = MaxRetriesError
  /\ UNCHANGED <<configVars, extVars, runVars, sessionVars, fetchVars, reqParams, attempt,
                 getLog, sleepLog, authLog, ret, storeVars>>

\* ------------------------------------------------------------ _make_request

\* Python truthiness of next_page_token (None and "" are falsy)
Truthy(tok) == tok # NoCursor

\* paginated_params = params.copy(), plus pageToken when there is a cursor
PaginatedParams(p, pg, tok) ==
  IF pg /\ Truthy(tok) THEN DictSet(p, "pageToken", tok) ELSE p

\* variant: paginated_params = params, the cursor written into the caller's dict
ParamsAliased(p, pp) == pp

\* params.copy(): what the loop writes goes to the copy, params stays as it is
ParamsCopied(p, pp) == p

\* variant: the break condition looks at the cursor alone
LoopBreaksOnCursor(pg, tok) == ~Truthy(tok)

\* variant: "and" for "or" in the break condition
LoopBreaksAnd(pg, tok) == ~pg /\ ~Truthy(tok)

\* "if not paginated or not next_page_token: break"
LoopBreaks(pg, tok) == ~pg \/ ~Truthy(tok)

\* all_items.extend(items)
Extend(items, more) == items \o more

\* a caller starts _make_request(endpoint, params, paginated)
FetchStart(pgs, p, pg) ==
  /\ fpc = "idle"
  /\ fpc' = "loop"
  /\ pages' = pgs
  /\ params' = p
  /\ paginated' = pg
  /\ all_items' = <<>>
  /\ next_page_token' = NoCursor
  /\ page_num' = 1
  /\ callLog' = <<>>
  /\ rpc = "idle"
  /\ UNCHANGED <<configVars, extVars, runVars, sessionVars, requestVars, storeVars>>

\* top of the while loop: build the params and call _make_single_request
FetchCall ==
  /\ fpc = "loop"
  /\ rpc = "idle"
  /\ LET pp == PaginatedParams(params, paginated, next_page_token)
     IN /\ reqParams' = pp
        /\ callLog' = Append(callLog, pp)
        /\ params' = ParamsCopied(params, pp)
  /\ rpc' = "loop"
  /\ attempt' = 0
  /\ getLog' = <<>>
  /\ sleepLog' = <<>>
  /\ authLog' = <<>>
  /\ error' = NoError
  /\ ret' = NoReturn
  /\ UNCHANGED <<configVars, extVars, runVars, sessionVars, fpc, pages, paginated,
                 all_items, next_page_token, page_num, storeVars>>

\* _make_single_request returned: collect the items, break or go on
FetchReturn ==
  /\ fpc = "loop"
  /\ rpc = "returned"
  /\ all_items' = Extend(all_items, DictGet(ret.data, "items", <<>>))
  /\ next_page_token' = ret.next
  /\ IF LoopBreaks(paginated, ret.next)
     THEN fpc' = "done" /\ page_num' = page_num
     ELSE fpc' = "loop" /\ page_num' = page_num + 1
  /\ rpc' = "idle"
  /\ UNCHANGED <<configVars, extVars, runVars, sessionVars, pages, params, paginated, callLog,
                 reqParams, attempt, getLog, sleepLog, authLog, error, ret,
                 storeVars>>

\* _make_single_request raised: the exception leaves _make_request
FetchRaise ==
  /\ fpc = "loop"
  /\ rpc = "raised"
  /\ fpc' = "failed"
  /\ rpc' = "idle"
  /\ UNCHANGED <<configVars, extVars, runVars, sessionVars, pages, params, paginated, all_items,
                 next_page_token, page_num, callLog, reqParams, attempt,
                 getLog, sleepLog, authLog, error, ret, storeVars>>

\* the caller of _make_request takes the list (or the exception)
FetchDone ==
  /\ fpc \in {"done", "failed"}
  /\ fpc' = "idle"
  /\ pages' = <<1, 0>>
  /\ params' = {}
  /\ paginated' = TRUE
  /\ all_items' = <<>>
  /\ next_page_token' = NoCursor
  /\ page_num' = 1
  /\ callLog' = <<>>
  /\ rpc' = "idle"
  /\ reqParams' = {}
  /\ attempt' = 0
  /\ getLog' = <<>>
  /\ sleepLog' = <<>>
  /\ authLog' = <<>>
  /\ error' = NoError
  /\ ret' = NoReturn
  /\ UNCHANGED <<configVars, extVars, runVars, sessionVars, storeVars>>

\* a caller calls _make_single_request(url, params) directly
RequestCall(p) ==
  /\ fpc # "loop"
  /\ rpc = "idle"
  /\ reqParams' = p
  /\ rpc' = "loop"
  /\ attempt' = 0
  /\ getLog' = <<>>
  /\ sleepLog' = <<>>
  /\ authLog' = <<>>
  /\ error' = NoError
  /\ ret' = NoReturn
  /\ UNCHANGED <<configVars, extVars, runVars, sessionVars, fetchVars, storeVars>>

\* the direct caller takes the result (or the exception) of the call
RequestDone ==
  /\ fpc # "loop"
  /\ rpc \in {"returned", "raised"}
  /\ rpc' = "idle"
  /\ reqParams' = {}
  /\ attempt' = 0
  /\ getLog' = <<>>
  /\ sleepLog' = <<>>
  /\ authLog' = <<>>
  /\ error' = NoError
  /\ ret' = NoReturn
  /\ UNCHANGED <<configVars, extVars, runVars, sessionVars, fetchVars, storeVars>>

\* a caller (the AUTH stage) calls authenticate()
Authenticate(out) ==
  /\ fpc # "loop"
  /\ rpc = "idle"
  /\ LET r == authenticate(out, token, authHeader)
     IN /\ token' = r.token
        /\ authHeader' = r.header
        /\ lastAuth' = AuthRecord(out, r)
  /\ issued' = Issued(out)
  /\ UNCHANGED <<configVars, extVars, runVars, fetchVars, requestVars, storeVars>>

\* ---------------------------------------------------------- the graph store

\* JSON / Cypher values, tagged: None, strings, booleans, nested objects
None == <<"none">>
Str(x) == <<"str", x>>
Bool(b) == <<"bool", b>>
Obj(d) == <<"dict", d>>

\* Python truthiness of a value
TruthyValue(v) ==
  IF v[1] = "none" THEN FALSE
  ELSE IF v[1] = "str" THEN v[2] # ""
  ELSE IF v[1] = "bool" THEN v[2]
  ELSE IF v[1] = "int" THEN v[2] # 0
  ELSE IF v[1] = "list" THEN v[2] # <<>>
  ELSE v[2] # {}

\* the nodes a MERGE (n:label {guid: $guid}) pattern matches
Matching(ns, label, guid) ==
  {n \in ns : n.label = label /\ DictGet(n.props, "guid", None) = guid}

\* variant: CREATE instead of MERGE
CreateNode(ns, id, label, guid) ==
  ns \cup {[id |-> id, label |-> label, props |-> {<<"guid", guid>>}]}

\* MERGE: bind the matching nodes, or create one when there is none
MergeNode(ns, id, label, guid) ==
  IF Matching(ns, label, guid) = {}
  THEN ns \cup {[id |-> id, label |-> label, props |-> {<<"guid", guid>>}]}
  ELSE ns

\* variant: a null value leaves the stored property as it is
SetPropKeepOnNull(props, key, value) ==
  IF value = None THEN props ELSE DictSet(props, key, value)

\* SET n.key = value: a null value removes the property
SetProp(props, key, value) ==
  IF value = None THEN {p \in props : p[1] # key} ELSE DictSet(props, key, value)

RECURSIVE SetAll(_, _)
SetAll(props, assigns) ==
  IF assigns = <<>> THEN props
  ELSE SetAll(SetProp(props, Head(assigns)[1], Head(assigns)[2]), Tail(assigns))

\* the statement "MERGE (n:label {guid: $guid}) SET n.k = $k, ..." on the store
MergeAndSet(ns, id, label, guid, assigns) ==
  LET merged == MergeNode(ns, id, label, guid)
      bound == Matching(merged, label, guid)
  IN (merged \ bound)
       \cup {[id |-> n.id, label |-> n.label, props |-> SetAll(n.props, assigns)] :
               n \in bound}

\* the store refuses a MERGE on a null key property
StoreRejects(guid) == guid = None

\* ------------------------------------------- CustomerSync.sync_customer

\* business_unit_guid / account_owner_guid: the guid of a nested object
NestedGuid(data, field) ==
  IF TruthyValue(DictGet(data, field, None))
  THEN DictGet(DictGet(data, field, None)[2], "guid", None)
  ELSE None

\* the parameters sync_customer passes with its query, other than guid
CustomerAssigns(data) ==
  << <<"name", DictGet(data, "name", Str(""))>>,
     <<"number", DictGet(data, "number", Str(""))>>,
     <<"isActive", DictGet(data, "isActive", Bool(TRUE))>>,
     <<"businessUnitGuid", NestedGuid(data, "businessUnit")>>,
     <<"accountOwnerGuid", NestedGuid(data, "accountOwner")>>,
     <<"lastModified", DictGet(data, "lastModifiedDateTime", Str(""))>> >>

\* sync_customer(customer_data): one query through _execute_query, which
\* re-raises whatever the store raises (storeUp: the round trip works)
SyncCustomerCall(data, storeUp) ==
  LET guid == DictGet(data, "guid", None)
      ok == storeUp /\ ~StoreRejects(guid)
      after == MergeAndSet(nodes, nextId, "Customer", guid, CustomerAssigns(data))
  IN /\ ok => Cardinality(after) <= MaxNodes
     /\ IF ok
        THEN /\ nodes' = after
             /\ nextId' = IF Cardinality(after) > Cardinality(nodes)
                          THEN nextId + 1 ELSE nextId
             /\ syncResult' = "true"
             /\ mergeHist' = [rec |-> data,
                              repeated |-> mergeHist.rec = data,
                              before |-> IF mergeHist.rec = data THEN nodes ELSE {},
                              hadRef |-> \E n \in Matching(nodes, "Customer", guid) :
                                           DictHas(n.props, "businessUnitGuid")]
        ELSE /\ syncResult' = "raised"
             /\ UNCHANGED <<nodes, nextId, mergeHist>>
     /\ lastOp' = [op |-> "sync_customer", label |-> "Customer",
                   guid |-> IF ok THEN guid ELSE None,
                   result |-> IF ok THEN "true" ELSE "raised", failed |-> ~ok]
     /\ UNCHANGED <<rels, nextRelId, linkRet, batchVars, txVars>>

\* sync_customer called on its own
SyncCustomer(data, storeUp) ==
  /\ SyncCustomerCall(data, storeUp)
  /\ UNCHANGED <<configVars, extVars, runVars, sessionVars, fetchVars, requestVars>>

\* the customer records the API may return
Guids == {"c-1", "c-2"}
CustomerRecords ==
  { g \cup n \cup b \cup a :
      g \in {{}} \cup {{<<"guid", Str(x)>>} : x \in Guids},
      n \in {{}} \cup {{<<"name", Str(x)>>} : x \in {"Acme", "Acme Corp"}},
      b \in {{}, {<<"businessUnit", None>>}, {<<"businessUnit", Obj({})>>},
             {<<"businessUnit", Obj({<<"name", Str("Eng")>>})>>},
             {<<"businessUnit", Obj({<<"guid", Str("bu-4")>>})>>}},
      a \in {{}, {<<"accountOwner",
                    Obj({<<"guid", Str("u-9")>>, <<"firstName", Str("John")>>})>>}} }

\* ------------------------------------------------------- UserSync.sync_user

\* the parameters sync_user passes with its query, other than guid
UserAssigns(data) ==
  << <<"firstName", DictGet(data, "firstName", Str(""))>>,
     <<"lastName", DictGet(data, "lastName", Str(""))>>,
     <<"email", DictGet(data, "email", Str(""))>>,
     <<"isActive", DictGet(data, "isActive", Bool(TRUE))>>,
     <<"roleGuid", NestedGuid(data, "role")>>,
     <<"teamGuid", NestedGuid(data, "team")>>,
     <<"supervisorGuid", NestedGuid(data, "supervisor")>>,
     <<"departmentGuid", NestedGuid(data, "department")>>,
     <<"permissionProfileGuid", NestedGuid(data, "permissionProfile")>>,
     <<"lastModified", DictGet(data, "lastModifiedDateTime",
                               DictGet(data, "lastUpdatedDateTime", Str("")))>> >>

\* variant: the nested role is merged as a node of its own
MergeNested(ns, id, data) ==
  IF NestedGuid(data, "role") = None THEN ns
  ELSE MergeNode(ns, id, "Role", NestedGuid(data, "role"))

\* variant: the statement also merges the nested role
UserStatementAndRole(ns, id, data) ==
  MergeNested(MergeAndSet(ns, id, "User", DictGet(data, "guid", None),
                          UserAssigns(data)), id + 1, data)

\* sync_user runs one statement, on the User node alone
UserStatement(ns, id, data) ==
  MergeAndSet(ns, id, "User", DictGet(data, "guid", None), UserAssigns(data))

\* sync_user(user_data): one query through _execute_query
SyncUser(data, storeUp) ==
  LET guid == DictGet(data, "guid", None)
      ok == storeUp /\ ~StoreRejects(guid)
      after == UserStatement(nodes, nextId, data)
  IN /\ ok => Cardinality(after) <= MaxNodes
     /\ IF ok
        THEN /\ nodes' = after
             /\ nextId' = IF Cardinality(after) > Cardinality(nodes)
                          THEN nextId + 1 ELSE nextId
        ELSE UNCHANGED <<nodes, nextId>>
     /\ lastOp' = [op |-> "sync_user", label |-> "User",
                   guid |-> IF ok THEN guid ELSE None,
                   result |-> IF ok THEN "true" ELSE "raised", failed |-> ~ok]
     /\ UNCHANGED <<configVars, extVars, runVars, sessionVars, fetchVars, requestVars,
                    syncResult, mergeHist, rels, nextRelId, linkRet,
                    batchVars, txVars>>

\* the user records the API may return
UserRecords ==
  { g \cup r \cup m :
      g \in {{}, {<<"guid", Str("u-9")>>}},
      r \in {{}, {<<"role", Obj({<<"guid", Str("role-456")>>,
                                  <<"name", Str("Engineer")>>})>>}},
      m \in {{}, {<<"lastUpdatedDateTime", Str("2025-01-15")>>}} }

\* customer records of one customer, whose account owner is that user
OwnedCustomerRecords ==
  {r \in CustomerRecords : ~DictHas(r, "name") /\ <<"guid", Str("c-2")>> \notin r}

\* ------------------------------------------- Neo4jBase.batch_merge_nodes

Min(a, b) == IF a < b THEN a ELSE b

RECURSIVE KeySeq(_)
KeySeq(S) ==
  IF S = {} THEN <<>>
  ELSE LET k == CHOOSE x \in S : TRUE IN <<k>> \o KeySeq(S \ {k})

\* set_clauses: the keys of the first item of the batch other than guid, or
\* "n.guid = item.guid" when it has no other key
SetClauseKeys(batch) ==
  LET keys == {q[1] : q \in batch[1]} \ {"guid"}
  IN IF keys = {} THEN {"guid"} ELSE keys

\* SET n.key = item.key for each key of the clause: a key the item lacks is null
ItemAssigns(keys, item) ==
  [j \in 1..Cardinality(keys) |-> <<KeySeq(keys)[j], DictGet(item, KeySeq(keys)[j], None)>>]

\* UNWIND $batch AS item MERGE (n:label {guid: item.guid}) SET ...
RECURSIVE Unwind(_, _, _, _, _)
Unwind(ns, id, label, keys, batch) ==
  IF batch = <<>> THEN ns
  ELSE LET after == MergeAndSet(ns, id, label, DictGet(Head(batch), "guid", None),
                                ItemAssigns(keys, Head(batch)))
       IN Unwind(after, IF Cardinality(after) > Cardinality(ns) THEN id + 1 ELSE id,
                 label, keys, Tail(batch))

\* the statement fails as a whole when the MERGE of any item is refused
ChunkRejected(batch) ==
  \E j \in 1..Len(batch) : StoreRejects(DictGet(batch[j], "guid", None))

\* variant: the failure of a chunk is logged and the loop goes on
ChunkFailureSkipped == FALSE

\* "except Exception as e: logger.error(...); raise"
ChunkFailureRaises == TRUE

\* variant: chunks of batch_size + 1 items
SliceWide(its, i, size) == SubSeq(its, i + 1, Min(i + size + 1, Len(its)))

\* items[i:i + batch_size]
Slice(its, i, size) == SubSeq(its, i + 1, Min(i + size, Len(its)))

\* range(0, len(items), batch_size) still yields the value i
InBatchRange(i) == batch_size > 0 /\ i < Len(batchItems)

\* batch_merge_nodes(label, items, batch_size) up to the loop
BatchStart(label, its, size) ==
  /\ bpc = "idle"
  /\ tpc = "idle"
  /\ batchLabel' = label
  /\ batchItems' = its
  /\ batch_size' = size
  /\ IF its = <<>>
     THEN bpc' = "returned" /\ batchRet' = 0 /\ batchErr' = "none"
     ELSE IF size = 0
     THEN bpc' = "raised" /\ batchErr' = "ValueError" /\ batchRet' = NoCount
     ELSE bpc' = "loop" /\ UNCHANGED <<batchErr, batchRet>>
  /\ bi' = 0
  /\ total_merged' = 0
  /\ chunkLog' = <<>>
  /\ batchBefore' = nodes
  /\ lastOp' = [op |-> "batch_merge_nodes", label |-> label, guid |-> None,
                result |-> "none", failed |-> FALSE]
  /\ UNCHANGED <<configVars, extVars, runVars, sessionVars, fetchVars, requestVars,
                 nodes, nextId, syncResult, mergeHist, rels, nextRelId, linkRet, txVars>>

\* one iteration of the loop: one session.run in an auto-commit transaction
BatchChunk(storeUp) ==
  LET batch == Slice(batchItems, bi, batch_size)
      ok == storeUp /\ ~ChunkRejected(batch)
      after == Unwind(nodes, nextId, batchLabel, SetClauseKeys(batch), batch)
  IN /\ bpc = "loop"
     /\ InBatchRange(bi)
     /\ ok => Cardinality(after) <= MaxNodes
     /\ chunkLog' = Append(chunkLog, batch)
     /\ IF ok
        THEN /\ nodes' = after
             /\ nextId' = nextId + Cardinality(after) - Cardinality(nodes)
             /\ total_merged' = total_merged + Len(batch)
             /\ bi' = bi + batch_size
             /\ UNCHANGED <<bpc, batchErr>>
        ELSE IF ChunkFailureRaises
        THEN /\ bpc' = "raised"
             /\ batchErr' = "StoreError"
             /\ UNCHANGED <<nodes, nextId, total_merged, bi>>
        ELSE /\ bi' = bi + batch_size
             /\ UNCHANGED <<nodes, nextId, total_merged, bpc, batchErr>>
     /\ UNCHANGED <<configVars, extVars, runVars, sessionVars, fetchVars, requestVars,
                    syncResult, mergeHist, graphVars, txVars,
                    batchLabel, batchItems, batch_size, batchRet, batchBefore>>

\* the range is exhausted: return total_merged
BatchEnd ==
  /\ bpc = "loop"
  /\ ~InBatchRange(bi)
  /\ bpc' = "returned"
  /\ batchRet' = total_merged
  /\ UNCHANGED <<configVars, extVars, runVars, sessionVars, fetchVars, requestVars,
                 nodes, nextId, syncResult, mergeHist, graphVars, txVars,
                 batchLabel, batchItems, batch_size, bi, total_merged, chunkLog, batchErr,
                 batchBefore>>

\* control is back with the caller
BatchDone ==
  /\ bpc \in {"returned", "raised"}
  /\ bpc' = "idle"
  /\ batchLabel' = ""
  /\ batchItems' = <<>>
  /\ batch_size' = 1
  /\ bi' = 0
  /\ total_merged' = 0
  /\ chunkLog' = <<>>
  /\ batchErr' = "none"
  /\ batchRet' = NoCount
  /\ batchBefore' = {}
  /\ UNCHANGED <<configVars, extVars, runVars, sessionVars, fetchVars, requestVars,
                 nodes, nextId, syncResult, mergeHist, graphVars, txVars>>

\* the items a caller passes: flat property maps of dependent nodes
ProjectItems ==
  { {<<"guid", Str("p-1")>>, <<"customerGuid", Str("c-1")>>},
    {<<"guid", Str("p-2")>>, <<"customerGuid", Str("c-3")>>},
    {<<"guid", Str("p-1")>>},
    {<<"customerGuid", Str("c-1")>>} }

RECURSIVE SeqsUpTo(_, _)
SeqsUpTo(S, n) ==
  IF n = 0 THEN {<<>>}
  ELSE SeqsUpTo(S, n - 1) \cup {Append(q, x) : q \in SeqsUpTo(S, n - 1), x \in S}

ItemLists == SeqsUpTo(ProjectItems, MaxBatchItems)
BatchSizes == (0 - 1)..MaxBatchSize

\* ---------------------- Neo4jBase._execute_batch, from create_year_nodes

Num(i) == <<"int", i>>

\* the statement "MERGE (y:Year {year: $year}) SET y.yearString = $yearString"
YearStatement(ns, id, year) ==
  LET match == {n \in ns : n.label = "Year" /\ <<"year", Num(year)>> \in n.props}
      merged == IF match = {}
                THEN ns \cup {[id |-> id, label |-> "Year",
                               props |-> {<<"year", Num(year)>>}]}
                ELSE ns
      bound == {n \in merged : n.label = "Year" /\ <<"year", Num(year)>> \in n.props}
  IN (merged \ bound)
       \cup {[id |-> n.id, label |-> n.label,
               props |-> SetProp(n.props, "yearString", Str(ToString(year)))] :
               n \in bound}

\* queries of create_year_nodes: one per year of range(start_year, end_year + 1)
YearQueries(start_year, end_year) ==
  [j \in 1..(IF end_year >= start_year THEN end_year - start_year + 1 ELSE 0)
     |-> start_year + j - 1]

\* variant: a transaction that is not committed leaves its writes in the store
RollbackKeep(committed, working) == working

\* leaving "with session.begin_transaction() as tx" without commit rolls back
Rollback(committed, working) == committed

\* create_year_nodes(start_year, end_year) up to session.begin_transaction()
ExecBegin(start_year, end_year) ==
  /\ tpc = "idle"
  /\ bpc = "idle"
  /\ tpc' = "tx"
  /\ queries' = YearQueries(start_year, end_year)
  /\ ti' = 0
  /\ txNodes' = nodes
  /\ txNextId' = nextId
  /\ UNCHANGED <<execErr, execRet>>
  /\ lastOp' = [op |-> "_execute_batch", label |-> "Year", guid |-> None,
                result |-> "none", failed |-> FALSE]
  /\ UNCHANGED <<configVars, extVars, runVars, sessionVars, fetchVars, requestVars,
                 nodes, nextId, syncResult, mergeHist, rels, nextRelId, linkRet, batchVars>>

\* tx.run(query, parameters) for the next query
ExecRun(storeUp) ==
  LET after == YearStatement(txNodes, txNextId, queries[ti + 1])
  IN /\ tpc = "tx"
     /\ ti < Len(queries)
     /\ IF storeUp
        THEN /\ txNodes' = after
             /\ txNextId' = txNextId + Cardinality(after) - Cardinality(txNodes)
             /\ ti' = ti + 1
             /\ UNCHANGED <<tpc, execErr, nodes, nextId>>
        ELSE /\ tpc' = "raised"
             /\ execErr' = "StoreError"
             /\ nodes' = Rollback(nodes, txNodes)
             /\ nextId' = IF nodes' = nodes THEN nextId ELSE txNextId
             /\ UNCHANGED <<txNodes, txNextId, ti>>
     /\ UNCHANGED <<configVars, extVars, runVars, sessionVars, fetchVars, requestVars,
                    syncResult, mergeHist, graphVars, batchVars, queries, execRet>>

\* tx.commit() and "return len(queries)"
ExecCommit(storeUp) ==
  /\ tpc = "tx"
  /\ ti = Len(queries)
  /\ IF storeUp
     THEN /\ nodes' = txNodes
          /\ nextId' = txNextId
          /\ tpc' = "returned"
          /\ execRet' = Len(queries)
          /\ UNCHANGED execErr
     ELSE /\ tpc' = "raised"
          /\ execErr' = "StoreError"
          /\ nodes' = Rollback(nodes, txNodes)
          /\ nextId' = IF nodes' = nodes THEN nextId ELSE txNextId
          /\ UNCHANGED execRet
  /\ UNCHANGED <<configVars, extVars, runVars, sessionVars, fetchVars, requestVars,
                 syncResult, mergeHist, graphVars, batchVars,
                 queries, ti, txNodes, txNextId>>

\* control is back with the caller
ExecDone ==
  /\ tpc \in {"returned", "raised"}
  /\ tpc' = "idle"
  /\ queries' = <<>>
  /\ ti' = 0
  /\ txNodes' = {}
  /\ txNextId' = 1
  /\ execErr' = "none"
  /\ execRet' = NoCount
  /\ UNCHANGED <<configVars, extVars, runVars, sessionVars, fetchVars, requestVars,
                 nodes, nextId, syncResult, mergeHist, graphVars, batchVars>>

FirstYear == 2020
Years == FirstYear..(FirstYear + MaxYears - 1)

\* items of one dependent node: well-formed, or without guid
UnitItems ==
  { {<<"guid", Str("p-1")>>, <<"customerGuid", Str("c-1")>>},
    {<<"customerGuid", Str("c-1")>>} }

\* ------------ CustomerRelationships.create_customer_project_relationships

\* MATCH (p:Label) WHERE p.customerGuid IS NOT NULL
Dependents(ns, depLabel) ==
  {n \in ns : n.label = depLabel /\ DictHas(n.props, "customerGuid")}

RECURSIVE MergeAll(_, _, _, _)
MergeAll(ns, id, label, guids) ==
  IF guids = <<>> THEN ns
  ELSE LET after == MergeNode(ns, id, label, Head(guids))
       IN MergeAll(after, IF after = ns THEN id ELSE id + 1, label, Tail(guids))

\* variant: MERGE (c:Customer {guid: p.customerGuid})
TargetsMerged(ns, id, depLabel) ==
  MergeAll(ns, id, "Customer",
           KeySeq({DictGet(n.props, "customerGuid", None) : n \in Dependents(ns, depLabel)}))

\* MATCH (c:Customer {guid: p.customerGuid}) binds nodes that exist
TargetsMatched(ns, id, depLabel) == ns

\* the rows the two MATCH clauses produce: (customer, dependent) pairs
Rows(ns, depLabel) ==
  {row \in ns \X Dependents(ns, depLabel) :
     /\ row[1].label = "Customer"
     /\ DictGet(row[1].props, "guid", None) = DictGet(row[2].props, "customerGuid", None)}

\* variant: CREATE (c)-[r:TYPE]->(p)
CreateRel(rs, id, type, src, dst) ==
  rs \cup {[id |-> id, type |-> type, src |-> src, dst |-> dst]}

\* MERGE (c)-[r:TYPE]->(p): bind the relationship, or create it
MergeRel(rs, id, type, src, dst) ==
  IF \E r \in rs : r.type = type /\ r.src = src /\ r.dst = dst
  THEN rs
  ELSE rs \cup {[id |-> id, type |-> type, src |-> src, dst |-> dst]}

\* the MERGE of the relationship, row by row
RECURSIVE MergeRows(_, _, _, _)
MergeRows(rs, id, type, rows) ==
  IF rows = {} THEN rs
  ELSE LET row == CHOOSE x \in rows : TRUE
           after == MergeRel(rs, id, type, row[1].id, row[2].id)
       IN MergeRows(after, IF after = rs THEN id ELSE id + 1, type, rows \ {row})

\* create_customer_<dependent>_relationships(): one query in a session; any
\* exception is logged and 0 is returned
Link(depLabel, relType, storeUp) ==
  LET targets == TargetsMatched(nodes, nextId, depLabel)
      rows == Rows(targets, depLabel)
      after == MergeRows(rels, nextRelId, relType, rows)
  IN /\ bpc = "idle"
     /\ tpc = "idle"
     /\ storeUp => Cardinality(after) <= MaxRels /\ Cardinality(targets) <= MaxNodes
     /\ IF storeUp
        THEN /\ nodes' = targets
             /\ nextId' = nextId + Cardinality(targets) - Cardinality(nodes)
             /\ rels' = after
             /\ nextRelId' = nextRelId + Cardinality(after) - Cardinality(rels)
             /\ linkRet' = Cardinality(rows)
        ELSE /\ linkRet' = 0
             /\ UNCHANGED <<nodes, nextId, rels, nextRelId>>
     /\ lastOp' = [op |-> "link", label |-> depLabel, guid |-> None,
                   result |-> "returned", failed |-> ~storeUp]
     /\ UNCHANGED <<configVars, extVars, runVars, sessionVars, fetchVars, requestVars,
                    syncResult, mergeHist, batchVars, txVars>>

\* dependent nodes of two customers
LinkItems ==
  { {<<"guid", Str("p-1")>>, <<"customerGuid", Str("c-1")>>},
    {<<"guid", Str("p-2")>>, <<"customerGuid", Str("c-1")>>},
    {<<"guid", Str("p-2")>>, <<"customerGuid", Str("c-2")>>} }

\* the customers they refer to, as items of a batch merge
CustomerItems == {{<<"guid", Str(g)>>} : g \in Guids}

\* one-item lists of either label
LinkBatches ==
  {<<"Customer", <<item>> >> : item \in CustomerItems}
    \cup {<<"Project", <<item>> >> : item \in LinkItems}

\* ------------------------------------------ SyncOrchestrator.run_full_sync

\* variant: metrics are calculated before the relationships exist
StageOrderMetricsFirst ==
  <<"AUTH", "INDEX", "REFERENCE", "CORE_ENTITIES", "TRANSACTIONAL",
    "METRICS", "RELATIONSHIPS", "ANALYTICS", "SUMMARY">>

\* the steps of the try block, top to bottom
StageOrder ==
  <<"AUTH", "INDEX", "REFERENCE", "CORE_ENTITIES", "TRANSACTIONAL",
    "RELATIONSHIPS", "METRICS", "ANALYTICS", "SUMMARY">>

\* variant: the index step ignores dry_run
StageEnabledIndexAlways(s) ==
  IF s = "INDEX" THEN create_indexes
  ELSE IF s \in {"REFERENCE", "CORE_ENTITIES", "TRANSACTIONAL", "RELATIONSHIPS"}
  THEN ~dry_run
  ELSE IF s = "METRICS" THEN enable_metrics /\ ~dry_run
  ELSE IF s = "ANALYTICS" THEN enable_analytics /\ ~dry_run
  ELSE TRUE

\* variant: analytics nested under the metrics flag
StageEnabledNested(s) ==
  IF s = "INDEX" THEN create_indexes /\ ~dry_run
  ELSE IF s \in {"REFERENCE", "CORE_ENTITIES", "TRANSACTIONAL", "RELATIONSHIPS"}
  THEN ~dry_run
  ELSE IF s = "METRICS" THEN enable_metrics /\ ~dry_run
  ELSE IF s = "ANALYTICS" THEN enable_metrics /\ enable_analytics /\ ~dry_run
  ELSE TRUE

\* the condition that guards each step
StageEnabled(s) ==
  IF s = "INDEX" THEN create_indexes /\ ~dry_run
  ELSE IF s \in {"REFERENCE", "CORE_ENTITIES", "TRANSACTIONAL", "RELATIONSHIPS"}
  THEN ~dry_run
  ELSE IF s = "METRICS" THEN enable_metrics /\ ~dry_run
  ELSE IF s = "ANALYTICS" THEN enable_analytics /\ ~dry_run
  ELSE TRUE

\* position in the try block of the step whose stage is s
StageIndex(s) == CHOOSE k \in 1..Len(StageOrder) : StageOrder[k] = s

\* the next step below step k whose condition holds (0: none, return True)
NextStageIndex(k) ==
  IF \E j \in (k + 1)..Len(StageOrder) : StageEnabled(StageOrder[j])
  THEN CHOOSE j \in (k + 1)..Len(StageOrder) :
         /\ StageEnabled(StageOrder[j])
         /\ \A i \in (k + 1)..(j - 1) : ~StageEnabled(StageOrder[i])
  ELSE 0

\* the stages that work on the store
StoreStages ==
  {"INDEX", "REFERENCE", "CORE_ENTITIES", "TRANSACTIONAL", "RELATIONSHIPS",
   "METRICS", "ANALYTICS"}

\* variant: a failed authentication is logged and the run goes on
AfterAuthIgnore(ok) == "continue"

\* "if not self._authenticate(): return False"
AfterAuth(ok) == IF ok THEN "continue" ELSE "False"

\* variant: the connections are closed in the except clause only
FinallyOnException(exit) == exit = "False"

\* "finally: self._close_connections()" runs however the try block is left
FinallyRuns(exit) == TRUE

\* variant: the entity stage logs its exception and returns
StageEscapesNotCore(s, exc) == s # "CORE_ENTITIES"

\* the stage methods are called without a try of their own: whatever a
\* stage raises leaves the stage and reaches the handlers of run_full_sync
StageEscapes(s, exc) == TRUE

\* control moves on from step k of the try block
Proceed(k) ==
  IF NextStageIndex(k) = 0
  THEN /\ pending' = "True"
       /\ runPc' = "finally"
       /\ UNCHANGED <<stage, stageLog>>
  ELSE /\ stage' = StageOrder[NextStageIndex(k)]
       /\ stageLog' = Append(stageLog, StageOrder[NextStageIndex(k)])
       /\ UNCHANGED <<pending, runPc>>

\* run_full_sync(create_indexes, dry_run) is called and enters step 1
RunStart(ci, dr) ==
  /\ runPc = "idle"
  /\ create_indexes' = ci
  /\ dry_run' = dr
  /\ runPc' = "stage"
  /\ stage' = "AUTH"
  /\ stageLog' = <<"AUTH">>
  /\ UNCHANGED <<enable_metrics, enable_analytics, pending, runRet, connOpen, storeLog,
                 excIn>>
  /\ UNCHANGED <<configVars, extVars, sessionVars, fetchVars, requestVars, storeVars>>

\* step 1: self._authenticate(), that is self.api.authenticate()
RunAuthenticate(out) ==
  /\ runPc = "stage"
  /\ stage = "AUTH"
  /\ LET r == authenticate(out, token, authHeader)
     IN /\ token' = r.token
        /\ authHeader' = r.header
        /\ lastAuth' = AuthRecord(out, r)
        /\ IF ~r.raised /\ AfterAuth(r.ok) = "continue"
           THEN Proceed(StageIndex("AUTH"))
           ELSE /\ pending' = "False"
                /\ runPc' = "finally"
                /\ UNCHANGED <<stage, stageLog>>
  /\ issued' = Issued(out)
  /\ UNCHANGED <<enable_metrics, enable_analytics, create_indexes, dry_run,
                 runRet, connOpen, storeLog, excIn>>
  /\ UNCHANGED <<configVars, extVars, fetchVars, requestVars, storeVars>>

\* a stage performs a store operation
StageWrite ==
  /\ runPc = "stage"
  /\ stage \in StoreStages
  /\ Len(storeLog) < MaxOps
  /\ storeLog' = Append(storeLog, "write")
  /\ UNCHANGED <<enable_metrics, enable_analytics, create_indexes, dry_run, runPc,
                 stage, stageLog, pending, runRet, connOpen, excIn>>
  /\ UNCHANGED <<configVars, extVars, sessionVars, fetchVars, requestVars, storeVars>>

\* the stage method returns
StageReturn ==
  /\ runPc = "stage"
  /\ stage # "AUTH"
  /\ Proceed(StageIndex(stage))
  /\ UNCHANGED <<enable_metrics, enable_analytics, create_indexes, dry_run,
                 runRet, connOpen, storeLog, excIn>>
  /\ UNCHANGED <<configVars, extVars, sessionVars, fetchVars, requestVars, storeVars>>

\* the stage raises: an Exception goes to "except Exception: return False",
\* a KeyboardInterrupt passes it
StageRaise(exc) ==
  /\ runPc = "stage"
  /\ excIn' = [stage |-> stage, exc |-> exc]
  /\ IF StageEscapes(stage, exc)
     THEN /\ pending' = IF exc = "Exception" THEN "False" ELSE exc
          /\ runPc' = "finally"
          /\ UNCHANGED <<stage, stageLog>>
     ELSE Proceed(StageIndex(stage))
  /\ UNCHANGED <<enable_metrics, enable_analytics, create_indexes, dry_run,
                 runRet, connOpen, storeLog>>
  /\ UNCHANGED <<configVars, extVars, sessionVars, fetchVars, requestVars, storeVars>>

\* the finally clause: _close_connections(), then control leaves
RunFinally ==
  /\ runPc = "finally"
  /\ IF FinallyRuns(pending)
     THEN connOpen' = FALSE /\ storeLog' = Append(storeLog, "close")
     ELSE UNCHANGED <<connOpen, storeLog>>
  /\ runPc' = "done"
  /\ runRet' = pending
  /\ UNCHANGED <<enable_metrics, enable_analytics, create_indexes, dry_run,
                 stage, stageLog, pending, excIn>>
  /\ UNCHANGED <<configVars, extVars, sessionVars, fetchVars, requestVars, storeVars>>

\* ------------------------ the entity sync loop (_sync_customers template)

\* variant: the loop has no try around the item
ItemErrorEscapes == FALSE

\* "try: sync_customer(...) except Exception: ..." around each item
ItemErrorCaught == TRUE

\* customers = self.api.get_customers(), and the loop is entered
LoopStart(fetched) ==
  /\ lpc = "idle"
  /\ lpc' = "loop"
  /\ customers' = fetched
  /\ UNCHANGED <<li, customers_synced, customers_failed, itemLog>>
  /\ UNCHANGED <<configVars, utilVars, runVars, periodVars, analyticsVars, sessionVars, fetchVars,
                 requestVars, storeVars>>

\* one iteration: sync_customer on the next item, then the counter
LoopItem(storeUp) ==
  /\ lpc = "loop"
  /\ li < Len(customers)
  /\ SyncCustomerCall(customers[li + 1], storeUp)
  /\ li' = li + 1
  /\ IF syncResult' = "true"
     THEN /\ customers_synced' = customers_synced + 1
          /\ itemLog' = Append(itemLog, "synced")
          /\ UNCHANGED <<customers_failed, lpc>>
     ELSE IF ItemErrorCaught
     THEN /\ customers_failed' = customers_failed + 1
          /\ itemLog' = Append(itemLog, "failed")
          /\ UNCHANGED <<customers_synced, lpc>>
     ELSE /\ lpc' = "raised"
          /\ itemLog' = Append(itemLog, "raised")
          /\ UNCHANGED <<customers_synced, customers_failed>>
  /\ UNCHANGED <<configVars, utilVars, runVars, periodVars, analyticsVars, sessionVars, fetchVars,
                 requestVars, customers>>

\* the list is exhausted: the method returns
LoopEnd ==
  /\ lpc = "loop"
  /\ li = Len(customers)
  /\ lpc' = "returned"
  /\ UNCHANGED <<customers, li, customers_synced, customers_failed, itemLog>>
  /\ UNCHANGED <<configVars, utilVars, runVars, periodVars, analyticsVars, sessionVars, fetchVars,
                 requestVars, storeVars>>

\* the customers a fetch may hold: complete, without guid, of another customer
LoopRecords ==
  { {<<"guid", Str("c-1")>>, <<"name", Str("Acme")>>},
    {<<"name", Str("Acme")>>},
    {<<"guid", Str("c-2")>>} }

\* ------------------------------- AggregationNodes: the period hierarchy

\* f"{month:02d}"
Pad2(n) == IF n < 10 THEN "0" \o ToString(n) ELSE ToString(n)

\* f"{year}-Q{quarter}"
QuarterId(year, quarter) == ToString(year) \o "-Q" \o ToString(quarter)

\* f"{year}-{month:02d}"
MonthId(year, month) == ToString(year) \o "-" \o Pad2(month)

\* current.strftime("%Y-%m-%d")
DayId(date) == MonthId(date[1], date[2]) \o "-" \o Pad2(date[3])

\* variant: the quarter of a month without the "- 1"
QuarterOfNoOffset(month) == month \div 3 + 1

\* quarter = (month - 1) // 3 + 1
QuarterOf(month) == (month - 1) \div 3 + 1

\* the nodes and relationships of the store as one value
Store(ns, id, rs, rid) == [nodes |-> ns, nextId |-> id, rels |-> rs, nextRelId |-> rid]

\* The store gives a new node or relationship an id that nothing else has.
\* A period node gets the id made of the number of its period and of the
\* number of nodes already stored for that period, a CONTAINS relationship
\* the one made of the id of its end node and of the number of relationships
\* already ending there: stores that differ only in the order in which their
\* periods were created are then the same store.
PeriodBase == 10000
YearNumber(year) == (year - FirstYear + 1) * PeriodBase
QuarterNumber(year, quarter) == YearNumber(year) + 9000 + quarter
MonthNumber(year, month) == YearNumber(year) + month * 100
DayNumber(date) == MonthNumber(date[1], date[2]) + date[3]
FreshNodeId(ns, number) ==
  number * 10 + Cardinality({n \in ns : n.id \div 10 = number})
FreshRelId(rs, dst) ==
  dst * 10 + Cardinality({r \in rs : r.dst = dst})

\* variant: CREATE (c:Label {id: $id}) in place of the MERGE
PeriodCreate(ns, id, label, pid) ==
  ns \cup {[id |-> id, label |-> label, props |-> {<<"id", Str(pid)>>}]}

\* MERGE (c:Label {id: $id})
PeriodMerge(ns, id, label, pid) ==
  IF \E n \in ns : n.label = label /\ <<"id", Str(pid)>> \in n.props
  THEN ns
  ELSE ns \cup {[id |-> id, label |-> label, props |-> {<<"id", Str(pid)>>}]}

\* MERGE (p)-[:CONTAINS]->(c), row by row
RECURSIVE ContainsRows(_, _)
ContainsRows(rs, rows) ==
  IF rows = {} THEN rs
  ELSE LET row == CHOOSE x \in rows : TRUE
       IN ContainsRows(MergeRel(rs, FreshRelId(rs, row[2].id), "CONTAINS",
                                row[1].id, row[2].id),
                       rows \ {row})

\* the nodes a pattern (c:Label {id: $id}) binds
Bound(ns, label, pid) == {n \in ns : n.label = label /\ <<"id", Str(pid)>> \in n.props}

\* SET c.k = $k, ... on the bound nodes
ChildSet(merged, bound, assigns) ==
  (merged \ bound)
    \cup {[id |-> n.id, label |-> n.label, props |-> SetAll(n.props, assigns)] :
            n \in bound}

\* MERGE (p)-[:CONTAINS]->(c) for every row (p, c)
ChildLink(st, q, parents, written) ==
  Store(written, st.nextId,
        ContainsRows(st.rels, parents \X Bound(written, q.label, q.id)), st.nextRelId)

\* "MATCH (p:Parent {key: $v}) MERGE (c:Label {id: $id}) SET c.k = $k, ...
\*  MERGE (p)-[:CONTAINS]->(c)": without a parent there is no row and
\* nothing is written
ChildMerge(st, q, parents, merged) ==
  IF parents = {}
  THEN st
  ELSE ChildLink(st, q, parents, ChildSet(merged, Bound(merged, q.label, q.id), q.assigns))

ChildStatement(st, q) ==
  ChildMerge(st, q,
             {n \in st.nodes : n.label = q.parentLabel /\ q.parentKey \in n.props},
             PeriodMerge(st.nodes, FreshNodeId(st.nodes, q.number), q.label, q.id))

\* the query of create_quarter_nodes for one year and quarter
QuarterQuery(year, quarter) ==
  [parentLabel |-> "Year", parentKey |-> <<"year", Num(year)>>,
   label |-> "Quarter", id |-> QuarterId(year, quarter),
   number |-> QuarterNumber(year, quarter),
   assigns |-> << <<"year", Num(year)>>, <<"quarter", Num(quarter)>>,
                  <<"yearQuarter", Str(QuarterId(year, quarter))>> >>]

\* the query of create_month_nodes for one year and month
MonthQuery(year, month) ==
  [parentLabel |-> "Quarter",
   parentKey |-> <<"id", Str(QuarterId(year, QuarterOf(month)))>>,
   label |-> "Month", id |-> MonthId(year, month),
   number |-> MonthNumber(year, month),
   assigns |-> << <<"year", Num(year)>>, <<"month", Num(month)>>,
                  <<"yearMonth", Str(MonthId(year, month))>>,
                  <<"quarter", Num(QuarterOf(month))>> >>]

\* the query of create_day_nodes for one date <<year, month, day>>
DayQuery(date) ==
  [parentLabel |-> "Month", parentKey |-> <<"id", Str(MonthId(date[1], date[2]))>>,
   label |-> "Day", id |-> DayId(date),
   number |-> DayNumber(date),
   assigns |-> << <<"year", Num(date[1])>>, <<"month", Num(date[2])>>,
                  <<"day", Num(date[3])>>, <<"date", Str(DayId(date))>> >>]

\* for year in range(start_year, end_year + 1): for quarter in range(1, 5)
RECURSIVE QuarterQueries(_, _)
QuarterQueries(start_year, end_year) ==
  IF start_year > end_year THEN <<>>
  ELSE [quarter \in 1..4 |-> QuarterQuery(start_year, quarter)]
         \o QuarterQueries(start_year + 1, end_year)

\* for year in range(start_year, end_year + 1): for month in range(1, 13)
RECURSIVE MonthQueries(_, _)
MonthQueries(start_year, end_year) ==
  IF start_year > end_year THEN <<>>
  ELSE [month \in 1..12 |-> MonthQuery(start_year, month)]
         \o MonthQueries(start_year + 1, end_year)

\* the calendar of datetime
IsLeap(year) == year % 4 = 0 /\ (year % 100 # 0 \/ year % 400 = 0)
DaysInMonth(year, month) ==
  IF month = 2 THEN (IF IsLeap(year) THEN 29 ELSE 28)
  ELSE IF month \in {4, 6, 9, 11} THEN 30 ELSE 31

\* current + timedelta(days=1)
NextDay(date) ==
  IF date[3] < DaysInMonth(date[1], date[2]) THEN <<date[1], date[2], date[3] + 1>>
  ELSE IF date[2] < 12 THEN <<date[1], date[2] + 1, 1>>
  ELSE <<date[1] + 1, 1, 1>>

\* current <= end
DateLE(a, b) ==
  \/ a[1] < b[1]
  \/ a[1] = b[1] /\ a[2] < b[2]
  \/ a[1] = b[1] /\ a[2] = b[2] /\ a[3] <= b[3]

\* while current <= end: queries.append(...); current += timedelta(days=1)
RECURSIVE DayQueries(_, _)
DayQueries(current, end) ==
  IF DateLE(current, end)
  THEN <<DayQuery(current)>> \o DayQueries(NextDay(current), end)
  ELSE <<>>

\* the queries of one transaction, in order
RECURSIVE RunChildQueries(_, _)
RunChildQueries(st, qs) ==
  IF qs = <<>> THEN st
  ELSE RunChildQueries(ChildStatement(st, Head(qs)), Tail(qs))

\* the queries of create_year_nodes, in order
RECURSIVE RunYearQueries(_, _)
RunYearQueries(st, years) ==
  IF years = <<>> THEN st
  ELSE LET id == FreshNodeId(st.nodes, YearNumber(Head(years)))
           after == YearStatement(st.nodes, id, Head(years))
       IN RunYearQueries(Store(after, st.nextId, st.rels, st.nextRelId), Tail(years))

\* what a create_*_nodes call leaves in the store when its transaction commits
PeriodsAfter(kind, from, to, st) ==
  IF kind = "year" THEN RunYearQueries(st, YearQueries(from, to))
  ELSE IF kind = "quarter" THEN RunChildQueries(st, QuarterQueries(from, to))
  ELSE IF kind = "month" THEN RunChildQueries(st, MonthQueries(from, to))
  ELSE RunChildQueries(st, DayQueries(from, to))

\* the number of queries the call hands to _execute_batch
PeriodQueryCount(kind, from, to) ==
  IF kind = "year" THEN Len(YearQueries(from, to))
  ELSE IF kind = "quarter" THEN Len(QuarterQueries(from, to))
  ELSE IF kind = "month" THEN Len(MonthQueries(from, to))
  ELSE Len(DayQueries(from, to))

NoPeriodRet == [raised |-> FALSE, count |-> NoCount]
NoBuild == [from |-> 0, to |-> 0, phase |-> 0, again |-> FALSE]

\* how far the build year, quarter, month over one year range has come;
\* "again" when the call was one of the completed build made once more
BuildAfter(kind, from, to) ==
  LET same == kind # "day" /\ build.phase > 0 /\ build.from = from /\ build.to = to
  IN IF same /\ build.phase = 3 THEN [build EXCEPT !.again = TRUE]
     ELSE IF kind = "year" /\ ~same
     THEN [from |-> from, to |-> to, phase |-> 1, again |-> FALSE]
     ELSE IF kind = "quarter" /\ same /\ build.phase = 1 THEN [build EXCEPT !.phase = 2]
     ELSE IF kind = "month" /\ same /\ build.phase = 2 THEN [build EXCEPT !.phase = 3]
     ELSE [build EXCEPT !.again = FALSE]

\* create_year_nodes, create_quarter_nodes, create_month_nodes (from, to: the
\* years) and create_day_nodes (from, to: the dates): the queries run in one
\* transaction of _execute_batch, which commits all of them or raises
CreatePeriodNodes(kind, from, to, storeUp) ==
  LET after == PeriodsAfter(kind, from, to, Store(nodes, nextId, rels, nextRelId))
      n == PeriodQueryCount(kind, from, to)
      \* create_day_nodes does not open a transaction for an empty list
      ok == storeUp \/ (kind = "day" /\ n = 0)
  IN /\ bpc = "idle"
     /\ tpc = "idle"
     /\ IF ok
        THEN /\ \E st \in {after} :
                  /\ nodes' = st.nodes
                  /\ nextId' = st.nextId
                  /\ rels' = st.rels
                  /\ nextRelId' = st.nextRelId
             /\ periodRet' = [raised |-> FALSE, count |-> n]
             /\ build' = BuildAfter(kind, from, to)
        ELSE /\ periodRet' = [raised |-> TRUE, count |-> NoCount]
             /\ UNCHANGED <<nodes, nextId, rels, nextRelId, build>>
     /\ UNCHANGED <<configVars, utilVars, runVars, loopVars, analyticsVars, sessionVars, fetchVars,
                    requestVars, syncResult, mergeHist, lastOp, linkRet, batchVars, txVars>>

create_year_nodes(start_year, end_year, storeUp) ==
  CreatePeriodNodes("year", start_year, end_year, storeUp)

create_quarter_nodes(start_year, end_year, storeUp) ==
  CreatePeriodNodes("quarter", start_year, end_year, storeUp)

create_month_nodes(start_year, end_year, storeUp) ==
  CreatePeriodNodes("month", start_year, end_year, storeUp)

create_day_nodes(start_date, end_date, storeUp) ==
  CreatePeriodNodes("day", start_date, end_date, storeUp)

\* the years of the period hierarchy
PeriodYears == FirstYear..(FirstYear + MaxPeriodYears - 1)

\* (start_date, end_date): one day, days across the end of a month, of a
\* leap February and of a year, and an end before the start
DayRanges ==
  { <<<<FirstYear, 1, 31>>, <<FirstYear, 1, 31>>>>,
    <<<<FirstYear, 1, 31>>, <<FirstYear, 2, 1>>>>,
    <<<<FirstYear, 2, 28>>, <<FirstYear, 3, 1>>>>,
    <<<<FirstYear, 12, 31>>, <<FirstYear + 1, 1, 1>>>>,
    <<<<FirstYear, 2, 1>>, <<FirstYear, 1, 31>>>> }

\* ------------------- AggregationNodes.link_facts_to_periods, and the facts

\* a date string "YYYY-MM-DD", by its parts
Date(year, month, day) == <<"date", year, month, day>>

\* an explicit list of keys (None: no list given)
List(keys) == <<"list", keys>>

NoAnalyticsOp ==
  [op |-> "none", label |-> "", keys |-> None, ret |-> NoCount, opened |-> FALSE,
   up |-> FALSE, failed |-> FALSE]

\* the functions of Cypher a statement of this repository may call; a
\* statement that calls any other function is refused when it is compiled
CypherFunctions == {"date", "datetime", "count", "sum", "coalesce"}

\* the functions the statement of link_facts_to_periods calls
LinkQueryFunctions == {"date", "sprintf", "count"}

\* the store compiles the statement
Compiles(functions) == functions \subseteq CypherFunctions

\* MERGE (f)-[:RECORDED_IN]->(m), row by row; the new relationship gets the
\* id made of the ids of its end nodes and of the number of relationships
\* already between them
RECURSIVE RecordedRows(_, _)
RecordedRows(rs, rows) ==
  IF rows = {} THEN rs
  ELSE LET row == CHOOSE x \in rows : TRUE
           copies == Cardinality({r \in rs : r.src = row[1].id /\ r.dst = row[2].id})
       IN RecordedRows(MergeRel(rs, (row[2].id * 100 + row[1].id) * 10 + copies,
                                "RECORDED_IN", row[1].id, row[2].id),
                       rows \ {row})

\* year + '-' + sprintf('%02d', month), with a sprintf that pads to two digits
MonthIdOf(date) == MonthId(date[2], date[3])

\* "MATCH (f:Fact) WHERE f.date IS NOT NULL ... MATCH (m:Month {id: monthId})":
\* the rows (f, m)
FactRows(ns, fact_entity, date_property) ==
  {row \in ns \X ns :
     /\ row[1].label = fact_entity
     /\ DictHas(row[1].props, date_property)
     /\ row[2].label = "Month"
     /\ <<"id", Str(MonthIdOf(DictGet(row[1].props, date_property, None)))>>
          \in row[2].props}

\* link_facts_to_periods(fact_entity, date_property): one statement in a
\* session; any exception is logged and 0 is returned
link_facts_to_periods(fact_entity, date_property, storeUp) ==
  LET ok == storeUp /\ Compiles(LinkQueryFunctions)
      rows == FactRows(nodes, fact_entity, date_property)
      after == RecordedRows(rels, rows)
  IN /\ bpc = "idle"
     /\ tpc = "idle"
     /\ rels' = IF ok THEN after ELSE rels
     /\ UNCHANGED nextRelId
     /\ analyticsOp' = [op |-> "link_facts_to_periods", label |-> fact_entity,
                        keys |-> None, ret |-> IF ok THEN Cardinality(rows) ELSE 0,
                        opened |-> TRUE, up |-> storeUp, failed |-> ~ok]
     /\ UNCHANGED <<configVars, utilVars, runVars, loopVars, periodVars, sessionVars,
                    fetchVars, requestVars, nodes, nextId, syncResult, mergeHist, lastOp,
                    linkRet, batchVars, txVars>>

\* _execute_query with a statement of the caller,
\* "MATCH (f {guid: $guid}) MATCH (m:Month {id: $monthId})
\*  MERGE (f)-[:RECORDED_IN]->(m)": the exception of the store is re-raised
ExecuteLinkQuery(guid, monthId, storeUp) ==
  LET rows == {row \in nodes \X nodes :
                 /\ <<"guid", Str(guid)>> \in row[1].props
                 /\ row[2].label = "Month"
                 /\ <<"id", Str(monthId)>> \in row[2].props}
      after == RecordedRows(rels, rows)
  IN /\ bpc = "idle"
     /\ tpc = "idle"
     /\ rels' = IF storeUp THEN after ELSE rels
     /\ UNCHANGED nextRelId
     /\ analyticsOp' = [op |-> "_execute_query", label |-> "", keys |-> None,
                        ret |-> NoCount, opened |-> TRUE, up |-> storeUp,
                        failed |-> ~storeUp]
     /\ UNCHANGED <<configVars, utilVars, runVars, loopVars, periodVars, sessionVars,
                    fetchVars, requestVars, nodes, nextId, syncResult, mergeHist, lastOp,
                    linkRet, batchVars, txVars>>

\* ------------------------------------ Denormalization and ProjectMetrics

NodeById(ns, id) == CHOOSE n \in ns : n.id = id

\* datetime(): the time of the store, which the model does not tell apart
Now == <<"datetime">>

\* a numeric property, or the default when it is null
NumOr(props, key, default) ==
  IF DictHas(props, key) THEN DictGet(props, key, None)[2] ELSE default

\* sum(f[x]) over the rows S
RECURSIVE SumOf(_, _)
SumOf(f, S) ==
  IF S = {} THEN 0
  ELSE LET x == CHOOSE y \in S : TRUE IN f[x] + SumOf(f, S \ {x})

\* the rows of (p)<-[:TYPE]-(x:Label): one for each relationship
InRows(ns, rs, p, type, label) ==
  {r \in rs : r.type = type /\ r.dst = p.id
                /\ \E n \in ns : n.id = r.src /\ n.label = label}

\* the rows of (p)-[:TYPE]->(x:Label)
OutRows(ns, rs, p, type, label) ==
  {r \in rs : r.type = type /\ r.src = p.id
                /\ \E n \in ns : n.id = r.dst /\ n.label = label}

\* wh.quantity under sum(), which skips a null
Quantity(wh) == NumOr(wh.props, "quantity", 0)

\* variant: every quantity counts as billable
BillableAll(wh) == Quantity(wh)

\* CASE WHEN wh.isBillable THEN wh.quantity ELSE 0 END
Billable(wh) ==
  IF DictGet(wh.props, "isBillable", None) = Bool(TRUE) THEN Quantity(wh) ELSE 0

\* CASE WHEN NOT wh.isBillable THEN wh.quantity ELSE 0 END: NOT null is null
NonBillable(wh) ==
  IF DictGet(wh.props, "isBillable", None) = Bool(FALSE) THEN Quantity(wh) ELSE 0

\* wh.quantity * COALESCE(wh.unitCost, 0)
Cost(wh) == Quantity(wh) * NumOr(wh.props, "unitCost", 0)

\* integer division of Cypher: towards zero
TruncDiv(a, b) == IF a >= 0 THEN a \div b ELSE 0 - ((0 - a) \div b)

\* CASE WHEN d > 0 THEN (n / d) * 100 ELSE 0 END
Pct(n, d) == IF d > 0 THEN TruncDiv(n, d) * 100 ELSE 0

\* count(DISTINCT x.guid) over the Label nodes joined by TYPE, in either
\* direction, to the start nodes of the rows
DistinctGuids(ns, rs, rows, type, label) ==
  Cardinality({DictGet(x.props, "guid", None) :
     x \in {n \in ns : /\ n.label = label
                       /\ DictHas(n.props, "guid")
                       /\ \E r \in rows, l \in rs :
                            /\ l.type = type
                            /\ \/ l.src = r.src /\ l.dst = n.id
                               \/ l.dst = r.src /\ l.src = n.id}})

\* the SET clause of calculate_period_metrics for the period p
PeriodAssigns(ns, rs, p, now) ==
  LET wh == InRows(ns, rs, p, "RECORDED_IN", "WorkHour")
      inv == InRows(ns, rs, p, "RECORDED_IN", "Invoice")
      totalHours == SumOf([r \in wh |-> Quantity(NodeById(ns, r.src))], wh)
      billableHours == SumOf([r \in wh |-> Billable(NodeById(ns, r.src))], wh)
      nonBillableHours == SumOf([r \in wh |-> NonBillable(NodeById(ns, r.src))], wh)
      totalCost == SumOf([r \in wh |-> Cost(NodeById(ns, r.src))], wh)
      totalRevenue ==
        SumOf([r \in inv |-> NumOr(NodeById(ns, r.src).props, "totalAmount", 0)], inv)
  IN << <<"totalHours", Num(totalHours)>>,
        <<"billableHours", Num(billableHours)>>,
        <<"nonBillableHours", Num(nonBillableHours)>>,
        <<"totalCost", Num(totalCost)>>,
        <<"totalRevenue", Num(totalRevenue)>>,
        <<"margin", Num(totalRevenue - totalCost)>>,
        <<"marginPct", Num(Pct(totalRevenue - totalCost, totalRevenue))>>,
        <<"uniqueUsers", Num(DistinctGuids(ns, rs, wh, "LOGGED_BY", "User"))>>,
        <<"uniqueProjects", Num(DistinctGuids(ns, rs, wh, "FOR_PROJECT", "Project"))>>,
        <<"lastDenormalizedAt", now>> >>

\* the SET clause of calculate_customer_summaries for the customer c
CustomerSummaryAssigns(ns, rs, c, now) ==
  LET rows == OutRows(ns, rs, c, "HAS_PROJECT", "Project")
      guids == {DictGet(NodeById(ns, r.dst).props, "guid", None) : r \in rows} \ {None}
  IN << <<"projectCount", Num(Cardinality(guids))>>,
        <<"totalHours",
          Num(SumOf([r \in rows |-> NumOr(NodeById(ns, r.dst).props, "hoursWorked", 0)],
                    rows))>>,
        <<"totalRevenue",
          Num(SumOf([r \in rows |-> NumOr(NodeById(ns, r.dst).props, "totalRevenue", 0)],
                    rows))>>,
        <<"lastDenormalizedAt", now>> >>

\* the SET clause of calculate_user_summaries for the user u
UserSummaryAssigns(ns, rs, u, now) ==
  LET wh == InRows(ns, rs, u, "LOGGED_BY", "WorkHour")
  IN << <<"totalHours", Num(SumOf([r \in wh |-> Quantity(NodeById(ns, r.src))], wh))>>,
        <<"billableHours", Num(SumOf([r \in wh |-> Billable(NodeById(ns, r.src))], wh))>>,
        <<"totalCost", Num(SumOf([r \in wh |-> Cost(NodeById(ns, r.src))], wh))>>,
        <<"lastDenormalizedAt", now>> >>

\* the rows of (p)-[:HAS_PHASE]->(ph:Phase)<-[:RECORDED_ON]-(wh:WorkHour)
PhaseHourRows(ns, rs, p) ==
  {row \in OutRows(ns, rs, p, "HAS_PHASE", "Phase") \X rs :
     /\ row[2].type = "RECORDED_ON"
     /\ row[2].dst = row[1].dst
     /\ \E n \in ns : n.id = row[2].src /\ n.label = "WorkHour"}

\* the SET clause of calculate_project_metrics for the project p
ProjectAssigns(ns, rs, p, now) ==
  LET wh == PhaseHourRows(ns, rs, p)
      ph == OutRows(ns, rs, p, "HAS_PHASE", "Phase")
      inv == InRows(ns, rs, p, "FOR_PROJECT", "Invoice")
      hoursWorked == SumOf([r \in wh |-> Quantity(NodeById(ns, r[2].src))], wh)
      billableHours == SumOf([r \in wh |-> Billable(NodeById(ns, r[2].src))], wh)
      nonBillableHours == SumOf([r \in wh |-> NonBillable(NodeById(ns, r[2].src))], wh)
      hourEstimate ==
        SumOf([r \in ph |-> NumOr(NodeById(ns, r.dst).props, "workHoursEstimate", 0)], ph)
      totalRevenue ==
        SumOf([r \in inv |-> NumOr(NodeById(ns, r.src).props, "totalAmount", 0)], inv)
      totalCost == SumOf([r \in wh |-> Cost(NodeById(ns, r[2].src))], wh)
  IN << <<"hoursWorked", Num(hoursWorked)>>,
        <<"billableHours", Num(billableHours)>>,
        <<"nonBillableHours", Num(nonBillableHours)>>,
        <<"hourEstimate", Num(hourEstimate)>>,
        <<"totalRevenue", Num(totalRevenue)>>,
        <<"totalCost", Num(totalCost)>>,
        <<"margin", Num(totalRevenue - totalCost)>>,
        <<"marginPct", Num(Pct(totalRevenue - totalCost, totalRevenue))>>,
        <<"completionPct", Num(Pct(hoursWorked, hourEstimate))>>,
        <<"billablePct", Num(Pct(billableHours, hoursWorked))>>,
        <<"lastMetricsUpdate", now>> >>

\* the SET clause of the statement of each method
MetricAssigns(op, ns, rs, n, now) ==
  IF op = "calculate_period_metrics" THEN PeriodAssigns(ns, rs, n, now)
  ELSE IF op = "calculate_customer_summaries" THEN CustomerSummaryAssigns(ns, rs, n, now)
  ELSE IF op = "calculate_user_summaries" THEN UserSummaryAssigns(ns, rs, n, now)
  ELSE ProjectAssigns(ns, rs, n, now)

\* variant: no early return
NoEarlyReturn(keys) == FALSE

\* "if keys is not None and len(keys) == 0: return 0"
EarlyReturn(keys) == keys # None /\ Len(keys[2]) = 0

\* where_clause = "WHERE p.key IN $keys" if keys else "": a list is true
\* when it is not empty
HasWhere(keys) == keys # None /\ Len(keys[2]) > 0

\* variant: the statement without its WHERE clause
TargetsAll(ns, label, keyProp, keys) == {n \in ns : n.label = label}

\* "MATCH (p:Label) WHERE p.key IN $keys": the nodes the statement writes
Targets(ns, label, keyProp, keys) ==
  {n \in ns :
     /\ n.label = label
     /\ HasWhere(keys) =>
          \E j \in 1..Len(keys[2]) : <<keyProp, Str(keys[2][j])>> \in n.props}

\* calculate_period_metrics, calculate_customer_summaries,
\* calculate_user_summaries, calculate_project_metrics: one statement in a
\* session; any exception is logged and 0 is returned
Recompute(op, label, keyProp, keys, storeUp) ==
  LET targets == Targets(nodes, label, keyProp, keys)
      written == {[id |-> n.id, label |-> n.label,
                   props |-> SetAll(n.props, MetricAssigns(op, nodes, rels, n, Now))] :
                    n \in targets}
  IN /\ bpc = "idle"
     /\ tpc = "idle"
     /\ IF EarlyReturn(keys)
        THEN /\ analyticsOp' = [op |-> op, label |-> label, keys |-> keys, ret |-> 0,
                                opened |-> FALSE, up |-> FALSE, failed |-> FALSE]
             /\ UNCHANGED nodes
        ELSE IF storeUp
        THEN /\ nodes' = (nodes \ targets) \cup written
             /\ analyticsOp' = [op |-> op, label |-> label, keys |-> keys,
                                ret |-> Cardinality(targets), opened |-> TRUE,
                                up |-> TRUE, failed |-> FALSE]
        ELSE /\ analyticsOp' = [op |-> op, label |-> label, keys |-> keys, ret |-> 0,
                                opened |-> TRUE, up |-> FALSE, failed |-> TRUE]
             /\ UNCHANGED nodes
     /\ UNCHANGED <<configVars, utilVars, runVars, loopVars, periodVars, sessionVars, fetchVars,
                    requestVars, nextId, syncResult, mergeHist, graphVars, batchVars,
                    txVars>>

\* period_type.capitalize()
Capitalize(period_type) ==
  IF period_type \in {"month", "Month", "MONTH"} THEN "Month"
  ELSE IF period_type \in {"quarter", "Quarter", "QUARTER"} THEN "Quarter"
  ELSE IF period_type \in {"year", "Year", "YEAR"} THEN "Year"
  ELSE period_type

calculate_period_metrics(period_type, periods, storeUp) ==
  Recompute("calculate_period_metrics", Capitalize(period_type), "id", periods, storeUp)

calculate_customer_summaries(customer_guids, storeUp) ==
  Recompute("calculate_customer_summaries", "Customer", "guid", customer_guids, storeUp)

calculate_user_summaries(user_guids, storeUp) ==
  Recompute("calculate_user_summaries", "User", "guid", user_guids, storeUp)

\* the label {Entity} of the template as Project
calculate_project_metrics(project_guids, storeUp) ==
  Recompute("calculate_project_metrics", "Project", "guid", project_guids, storeUp)

\* the facts and entities a sync has merged: two work hours and an invoice of
\* January, a work hour without date and billable flag, a work hour of a
\* month that has no node, a customer, a user, two projects
FactItems ==
  << <<"WorkHour", {<<"guid", Str("wh-1")>>, <<"eventDate", Date(FirstYear, 1, 15)>>,
                    <<"quantity", Num(5)>>, <<"isBillable", Bool(TRUE)>>,
                    <<"unitCost", Num(2)>>}>>,
     <<"WorkHour", {<<"guid", Str("wh-2")>>, <<"eventDate", Date(FirstYear, 1, 20)>>,
                    <<"quantity", Num(3)>>, <<"isBillable", Bool(FALSE)>>}>>,
     <<"WorkHour", {<<"guid", Str("wh-3")>>, <<"quantity", Num(7)>>}>>,
     <<"WorkHour", {<<"guid", Str("wh-4")>>,
                    <<"eventDate", Date(FirstYear + MaxPeriodYears, 3, 5)>>,
                    <<"quantity", Num(1)>>, <<"isBillable", Bool(TRUE)>>}>>,
     <<"Invoice", {<<"guid", Str("inv-1")>>, <<"invoiceDate", Date(FirstYear, 1, 10)>>,
                   <<"totalAmount", Num(100)>>}>>,
     <<"Customer", {<<"guid", Str("c-1")>>}>>,
     <<"User", {<<"guid", Str("u-1")>>}>>,
     <<"Project", {<<"guid", Str("p-1")>>}>>,
     <<"Project", {<<"guid", Str("p-2")>>}>> >>

\* batch_merge_nodes(label, [item]) for each of them, in order
RECURSIVE MergeFacts(_, _, _)
MergeFacts(ns, id, its) ==
  IF its = <<>> THEN ns
  ELSE MergeFacts(Unwind(ns, id, Head(its)[1], SetClauseKeys(<<Head(its)[2]>>),
                         <<Head(its)[2]>>),
                  id + 1, Tail(its))

\* the period hierarchy of the first year
FirstYearPeriods ==
  PeriodsAfter("month", FirstYear, FirstYear,
    PeriodsAfter("quarter", FirstYear, FirstYear,
      PeriodsAfter("year", FirstYear, FirstYear, Store({}, 1, {}, 1))))

\* the arguments tried: the (fact, month) pairs of the link statement, the
\* (fact_entity, date_property) pairs, the period and key lists
LinkInputs ==
  {<<"wh-1", "2020-01">>, <<"wh-2", "2020-01">>, <<"inv-1", "2020-01">>,
   <<"wh-3", "2020-02">>, <<"wh-4", "2021-03">>}
FactEntities == {<<"WorkHour", "eventDate">>, <<"Invoice", "invoiceDate">>}
PeriodLists ==
  {None, List(<<>>), List(<<"2020-01">>), List(<<"2020-02", "2019-12">>)}
GuidLists(guid) == {None, List(<<>>), List(<<guid>>)}

\* batch_merge_nodes(label, [item]) as one call: a single chunk, whose
\* failure is re-raised
MergeFact(label, item, storeUp) ==
  /\ bpc = "idle"
  /\ tpc = "idle"
  /\ \E after \in {Unwind(nodes, nextId, label, SetClauseKeys(<<item>>), <<item>>)} :
       IF storeUp /\ ~ChunkRejected(<<item>>)
       THEN /\ nodes' = after
            /\ nextId' = nextId + Cardinality(after) - Cardinality(nodes)
       ELSE UNCHANGED <<nodes, nextId>>
  /\ lastOp' = [op |-> "batch_merge_nodes", label |-> label, guid |-> None,
                result |-> "none", failed |-> ~(storeUp /\ ~ChunkRejected(<<item>>))]
  /\ UNCHANGED <<configVars, extVars, runVars, sessionVars, fetchVars, requestVars,
                 syncResult, mergeHist, rels, nextRelId, linkRet, batchVars, txVars>>

\* facts as a later fetch returns them: with the date they had, with a date
\* in another month, and with a date where there was none
RelinkItems ==
  { <<"WorkHour", {<<"guid", Str("wh-1")>>, <<"eventDate", Date(FirstYear, 1, 15)>>}>>,
    <<"WorkHour", {<<"guid", Str("wh-1")>>, <<"eventDate", Date(FirstYear, 2, 10)>>}>>,
    <<"WorkHour", {<<"guid", Str("wh-2")>>, <<"eventDate", Date(FirstYear, 3, 1)>>}>>,
    <<"WorkHour", {<<"guid", Str("wh-3")>>, <<"eventDate", Date(FirstYear, 1, 5)>>}>>,
    <<"Invoice", {<<"guid", Str("inv-1")>>, <<"invoiceDate", Date(FirstYear, 2, 1)>>}>> }

\* ------------------------------------------- SyncOrchestrator.__init__

NoCtor ==
  [called |-> FALSE, api |-> <<>>, neo |-> <<>>, raised |-> FALSE, exc |-> "none"]

\* {API}Config.validate(): the URL, and OAuth credentials or an API key
ApiConfigValid(c) ==
  c.api_url /\ ((c.client_id /\ c.client_secret) \/ c.api_key)

\* Neo4jConfig.validate(): uri, username and password
Neo4jConfigValid(c) == c.uri /\ c.username /\ c.password

\* Neo4jBase.connect(): GraphDatabase.driver(uri, auth) gives no driver for a
\* missing uri; otherwise self.driver is set and the test query "RETURN 1"
\* runs, which the store answers (testOk) or fails
Connect(c, testOk) ==
  IF ~c.uri THEN [driver |-> FALSE, raised |-> TRUE, exc |-> "ConfigurationError"]
  ELSE IF ~testOk THEN [driver |-> TRUE, raised |-> TRUE, exc |-> "DriverError"]
  ELSE [driver |-> TRUE, raised |-> FALSE, exc |-> "none"]

\* SyncOrchestrator(api_config, neo4j_config): super().__init__ connects,
\* then the two configurations are validated, then the client and the
\* statistics are set up; an exception leaves __init__ as it is raised
Construct(api, neo, testOk) ==
  /\ runPc = "unbuilt"
  /\ ~ctorOp.called
  /\ \E c \in {Connect(neo, testOk)} :
       LET exc == IF c.raised THEN c.exc
                  ELSE IF ~ApiConfigValid(api) THEN "ValueError"
                  ELSE IF ~Neo4jConfigValid(neo) THEN "ValueError"
                  ELSE "none"
       IN /\ connOpen' = c.driver
          /\ ctorOp' = [called |-> TRUE, api |-> api, neo |-> neo,
                        raised |-> exc # "none", exc |-> exc]
          /\ runPc' = IF exc = "none" THEN "idle" ELSE "unbuilt"
  /\ UNCHANGED <<enable_metrics, enable_analytics, create_indexes, dry_run, stage,
                 stageLog, pending, runRet, storeLog, excIn>>
  /\ UNCHANGED <<configVars, sessionVars, fetchVars, requestVars, storeVars, loopVars,
                 periodVars, analyticsVars, extractOp>>

\* the configurations as loaded from the environment: each setting present or not
ApiConfigs ==
  [api_url : BOOLEAN, client_id : BOOLEAN, client_secret : BOOLEAN, api_key : BOOLEAN]
Neo4jConfigs == [uri : BOOLEAN, username : BOOLEAN, password : BOOLEAN]

\* ------------------------------------------ Neo4jBase.extract_nested_guid

NoExtract ==
  [called |-> FALSE, data |-> {}, field |-> "", raised |-> FALSE, value |-> None]

\* variant: the test on truthiness alone, as the entity modules write it
\* inline; .get on a value that is not a dict raises AttributeError
extract_nested_guid_inline(data, nested_field) ==
  LET nested_obj == DictGet(data, nested_field, None)
  IN IF TruthyValue(nested_obj)
     THEN IF nested_obj[1] = "dict"
          THEN [raised |-> FALSE, value |-> DictGet(nested_obj[2], "guid", None)]
          ELSE [raised |-> TRUE, value |-> None]
     ELSE [raised |-> FALSE, value |-> None]

\* extract_nested_guid(data, nested_field): data.get, then the guid of the
\* value if it is truthy and a dict
extract_nested_guid(data, nested_field) ==
  LET nested_obj == DictGet(data, nested_field, None)
  IN IF TruthyValue(nested_obj) /\ nested_obj[1] = "dict"
     THEN [raised |-> FALSE, value |-> DictGet(nested_obj[2], "guid", None)]
     ELSE [raised |-> FALSE, value |-> None]

\* one call of the utility
ExtractCall(data, nested_field) ==
  /\ \E r \in {extract_nested_guid(data, nested_field)} :
       extractOp' = [called |-> TRUE, data |-> data, field |-> nested_field,
                     raised |-> r.raised, value |-> r.value]
  /\ UNCHANGED <<configVars, sessionVars, fetchVars, requestVars, storeVars, runVars,
                 loopVars, periodVars, analyticsVars, ctorOp>>

\* the values a field of an API record may hold: null, objects with and
\* without a guid, strings, numbers, lists, booleans
FieldValues ==
  {None, Obj({}), Obj({<<"guid", Str("c-1")>>}), Obj({<<"name", Str("n")>>}),
   Obj({<<"guid", None>>, <<"name", Str("n")>>}), Str(""), Str("c-1"), Num(0),
   Num(7), List(<<>>), List(<<"c-1">>), Bool(FALSE), Bool(TRUE)}

\* the records tried: each of two fields absent or holding one of the values
ExtractFields == {"customer", "owner"}
ExtractRecords ==
  {c \cup o : c \in {{}} \cup {{<<"customer", v>>} : v \in FieldValues},
              o \in {{}} \cup {{<<"owner", v>>} : v \in FieldValues}}

\* ------------------------------------------------------------ specification

\* the params a direct caller passes: none, or the cursor of the second page
DirectParams == {{}, {<<"pageToken", Cursor(2)>>}}

\* the answers the server gives while a paginated fetch is followed
FetchResponses == {r \in Responses : Classify(r) \in {"ok", "other", "server_error", "network"}}

InitSession ==
  /\ token = "None"
  /\ authHeader = <<>>
  /\ issued = "None"
  /\ lastAuth = NoAuth
  /\ fpc = "idle"
  /\ pages = <<1, 0>>
  /\ params = {}
  /\ paginated = TRUE
  /\ all_items = <<>>
  /\ next_page_token = NoCursor
  /\ page_num = 1
  /\ callLog = <<>>
  /\ rpc = "idle"
  /\ reqParams = {}
  /\ attempt = 0
  /\ getLog = <<>>
  /\ sleepLog = <<>>
  /\ authLog = <<>>
  /\ error = NoError
  /\ ret = NoReturn

InitGraph ==
  /\ nodes = {}
  /\ nextId = 1
  /\ rels = {}
  /\ nextRelId = 1

\* no call made on the store
InitCalls ==
  /\ syncResult = "none"
  /\ mergeHist = NoMerge
  /\ lastOp = NoOp
  /\ linkRet = NoCount
  /\ bpc = "idle"
  /\ batchLabel = ""
  /\ batchItems = <<>>
  /\ batch_size = 1
  /\ bi = 0
  /\ total_merged = 0
  /\ chunkLog = <<>>
  /\ batchErr = "none"
  /\ batchRet = NoCount
  /\ batchBefore = {}
  /\ tpc = "idle"
  /\ queries = <<>>
  /\ ti = 0
  /\ txNodes = {}
  /\ txNextId = 1
  /\ execErr = "none"
  /\ execRet = NoCount

InitStore == InitGraph /\ InitCalls

\* the orchestrator as constructed: connected, with either feature flag
InitRun ==
  /\ enable_metrics \in BOOLEAN
  /\ enable_analytics \in BOOLEAN
  /\ create_indexes = TRUE
  /\ dry_run = FALSE
  /\ runPc = "idle"
  /\ stage = "none"
  /\ stageLog = <<>>
  /\ pending = "none"
  /\ runRet = "none"
  /\ connOpen = TRUE
  /\ storeLog = <<>>
  /\ excIn = NoExc

\* the orchestrator with both feature flags on (their defaults)
InitRunDefault ==
  /\ enable_metrics = TRUE
  /\ enable_analytics = TRUE
  /\ create_indexes = TRUE
  /\ dry_run = FALSE
  /\ runPc = "idle"
  /\ stage = "none"
  /\ stageLog = <<>>
  /\ pending = "none"
  /\ runRet = "none"
  /\ connOpen = TRUE
  /\ storeLog = <<>>
  /\ excIn = NoExc

\* the statistics as _init_stats leaves them, no loop entered
InitLoop ==
  /\ lpc = "idle"
  /\ customers = <<>>
  /\ li = 0
  /\ customers_synced = 0
  /\ customers_failed = 0
  /\ itemLog = <<>>

\* no analytics call made
InitAnalytics == analyticsOp = NoAnalyticsOp

\* no create_*_nodes call made, no utility called
InitPeriods ==
  /\ periodRet = NoPeriodRet
  /\ build = NoBuild
  /\ extractOp = NoExtract
  /\ ctorOp = NoCtor

\* every max_retries the configuration may hold
Init ==
  max_retries \in 0..MaxRetries /\ InitSession /\ InitStore /\ InitRunDefault /\ InitLoop /\ InitPeriods /\ InitAnalytics

\* the configuration as loaded without SYNC_MAX_RETRIES set
InitDefault ==
  max_retries = DefaultMaxRetries /\ InitSession /\ InitStore /\ InitRunDefault
    /\ InitLoop /\ InitPeriods /\ InitAnalytics

\* the single-request primitive called directly, and authenticate()
NextRequest ==
  \/ \E out \in AuthOutcomes : Authenticate(out)
  \/ \E p \in DirectParams : RequestCall(p)
  \/ \E resp \in Responses, out \in AuthOutcomes : SingleAttempt(resp, out)
  \/ SingleExhausted
  \/ RequestDone

SpecRequest == Init /\ [][NextRequest]_vars

\* the same, a call in progress always taking its next step: the caller is
\* blocked in the call, and every GET is answered or times out
\* (timeout=request_timeout)
SpecRequestFair ==
  /\ Init
  /\ [][NextRequest]_vars
  /\ WF_vars(\E resp \in Responses, out \in AuthOutcomes : SingleAttempt(resp, out))
  /\ WF_vars(SingleExhausted)

\* the pagination loop over the single-request primitive
NextFetch ==
  \/ \E pgs \in PageCounts, p \in CallerParams, pg \in BOOLEAN :
       FetchStart(pgs, p, pg)
  \/ FetchCall
  \/ \E resp \in FetchResponses :
       SingleAttempt(resp, [kind |-> "HTTPError", token |-> "None"])
  \/ SingleExhausted
  \/ FetchReturn
  \/ FetchRaise
  \/ FetchDone

SpecFetch == Init /\ [][NextFetch]_vars

\* single-record merges against the store
NextMerge ==
  \E data \in CustomerRecords, storeUp \in BOOLEAN : SyncCustomer(data, storeUp)

SpecMerge == InitDefault /\ [][NextMerge]_vars

\* entity records of both kinds merged in any order
NextEntities ==
  \/ \E data \in OwnedCustomerRecords, storeUp \in BOOLEAN : SyncCustomer(data, storeUp)
  \/ \E data \in UserRecords, storeUp \in BOOLEAN : SyncUser(data, storeUp)

SpecEntities == InitDefault /\ [][NextEntities]_vars

\* batch merges of dependent nodes
NextBatch ==
  \/ \E its \in ItemLists, size \in BatchSizes : BatchStart("Project", its, size)
  \/ \E storeUp \in BOOLEAN : BatchChunk(storeUp)
  \/ BatchEnd
  \/ BatchDone

SpecBatch == InitDefault /\ [][NextBatch]_vars

\* the two kinds of write unit: a chunk of a batch merge, and the
\* transaction of one _execute_batch call
NextUnits ==
  \/ \E its \in SeqsUpTo(UnitItems, MaxBatchSize), size \in 1..MaxBatchSize :
       BatchStart("Project", its, size)
  \/ \E storeUp \in BOOLEAN : BatchChunk(storeUp)
  \/ BatchEnd
  \/ BatchDone
  \/ \E start_year \in Years, end_year \in Years : ExecBegin(start_year, end_year)
  \/ \E storeUp \in BOOLEAN : ExecRun(storeUp)
  \/ \E storeUp \in BOOLEAN : ExecCommit(storeUp)
  \/ ExecDone

SpecUnits == InitDefault /\ [][NextUnits]_vars

\* customers and their dependents are merged, and linked, in any order
NextLink ==
  \/ \E b \in LinkBatches : BatchStart(b[1], b[2], MaxBatchSize)
  \/ \E storeUp \in BOOLEAN : BatchChunk(storeUp)
  \/ BatchEnd
  \/ BatchDone
  \/ \E storeUp \in BOOLEAN : Link("Project", "HAS_PROJECT", storeUp)

SpecLink == InitDefault /\ [][NextLink]_vars

\* one entity sync loop over a fetched list
NextLoop ==
  \/ \E fetched \in SeqsUpTo(LoopRecords, MaxBatchItems) : LoopStart(fetched)
  \/ \E storeUp \in BOOLEAN : LoopItem(storeUp)
  \/ LoopEnd

SpecLoop == InitDefault /\ [][NextLoop]_vars

\* the create_*_nodes calls in any order over any ranges
NextPeriods ==
  \/ \E y1 \in PeriodYears, y2 \in PeriodYears, storeUp \in BOOLEAN :
       create_year_nodes(y1, y2, storeUp)
  \/ \E y1 \in PeriodYears, y2 \in PeriodYears, storeUp \in BOOLEAN :
       create_quarter_nodes(y1, y2, storeUp)
  \/ \E y1 \in PeriodYears, y2 \in PeriodYears, storeUp \in BOOLEAN :
       create_month_nodes(y1, y2, storeUp)
  \/ \E r \in DayRanges, storeUp \in BOOLEAN : create_day_nodes(r[1], r[2], storeUp)

SpecPeriods == InitDefault /\ [][NextPeriods]_vars

\* the store after the periods of the first year were created and the facts
\* merged
InitFacts ==
  /\ nodes = MergeFacts(FirstYearPeriods.nodes, 1, FactItems)
  /\ nextId = Len(FactItems) + 1
  /\ rels = FirstYearPeriods.rels
  /\ nextRelId = 1

InitMetrics ==
  max_retries = DefaultMaxRetries /\ InitSession /\ InitFacts /\ InitCalls /\ InitRunDefault
    /\ InitLoop /\ InitPeriods /\ InitAnalytics

\* linking the facts and recomputing the values of the months, in any order
NextMetrics ==
  \/ \E e \in FactEntities, storeUp \in BOOLEAN :
       link_facts_to_periods(e[1], e[2], storeUp)
  \/ \E l \in LinkInputs, storeUp \in BOOLEAN : ExecuteLinkQuery(l[1], l[2], storeUp)
  \/ \E periods \in PeriodLists, storeUp \in BOOLEAN :
       calculate_period_metrics("month", periods, storeUp)

SpecMetrics == InitMetrics /\ [][NextMetrics]_vars

\* the four recomputations over all nodes, over no node and over a key list
NextSummaries ==
  \/ \E type \in {"month", "quarter"}, periods \in PeriodLists, storeUp \in BOOLEAN :
       calculate_period_metrics(type, periods, storeUp)
  \/ \E keys \in GuidLists("c-1"), storeUp \in BOOLEAN :
       calculate_customer_summaries(keys, storeUp)
  \/ \E keys \in GuidLists("u-1"), storeUp \in BOOLEAN :
       calculate_user_summaries(keys, storeUp)
  \/ \E keys \in GuidLists("p-1"), storeUp \in BOOLEAN :
       calculate_project_metrics(keys, storeUp)

SpecSummaries == InitMetrics /\ [][NextSummaries]_vars

\* facts merged again, the months rebuilt and the facts linked, in any order
NextRelink ==
  \/ \E b \in RelinkItems, storeUp \in BOOLEAN : MergeFact(b[1], b[2], storeUp)
  \/ \E storeUp \in BOOLEAN : create_month_nodes(FirstYear, FirstYear, storeUp)
  \/ \E e \in FactEntities, storeUp \in BOOLEAN :
       link_facts_to_periods(e[1], e[2], storeUp)

SpecRelink == InitMetrics /\ [][NextRelink]_vars

\* the foreign-key utility called on any record
NextExtract ==
  \E data \in ExtractRecords, f \in ExtractFields : ExtractCall(data, f)

SpecExtract == InitDefault /\ [][NextExtract]_vars

\* the orchestrator constructed under either setting of the feature flags
InitOrchestrator ==
  max_retries = DefaultMaxRetries /\ InitSession /\ InitStore /\ InitRun /\ InitLoop /\ InitPeriods /\ InitAnalytics

\* one run of the orchestrator
NextRun ==
  \/ \E ci \in BOOLEAN, dr \in BOOLEAN : RunStart(ci, dr)
  \/ \E out \in AuthOutcomes : RunAuthenticate(out)
  \/ StageWrite
  \/ StageReturn
  \/ \E exc \in {"Exception", "KeyboardInterrupt"} : StageRaise(exc)
  \/ RunFinally

SpecRun == InitOrchestrator /\ [][NextRun]_vars


\* no orchestrator constructed yet, no connection open
InitUnbuilt ==
  /\ max_retries = DefaultMaxRetries
  /\ InitSession /\ InitStore /\ InitLoop /\ InitPeriods /\ InitAnalytics
  /\ enable_metrics \in BOOLEAN
  /\ enable_analytics \in BOOLEAN
  /\ create_indexes = TRUE
  /\ dry_run = FALSE
  /\ runPc = "unbuilt"
  /\ stage = "none"
  /\ stageLog = <<>>
  /\ pending = "none"
  /\ runRet = "none"
  /\ connOpen = FALSE
  /\ storeLog = <<>>
  /\ excIn = NoExc

\* the orchestrator is constructed and, if that succeeded, run once
NextLifecycle ==
  \/ \E api \in ApiConfigs, neo \in Neo4jConfigs, testOk \in BOOLEAN :
       Construct(api, neo, testOk)
  \/ NextRun

SpecLifecycle == InitUnbuilt /\ [][NextLifecycle]_vars

\* ------------------------------------------------------------- properties

Ended == rpc \in {"returned", "raised"}
Is2xx(r) == r.kind = "http" /\ r.status \in 200..299
Is5xx(r) == r.kind = "http" /\ r.status \in 500..599
Is401(r) == r.kind = "http" /\ r.status = 401
Is429(r) == r.kind = "http" /\ r.status = 429
IsNet(r) == r.kind = "net"
IsOther4xx(r) == r.kind = "http" /\ r.status \in 400..499 /\ r.status \notin {401, 429}
HTTPErrorOf(st) == [type |-> "HTTPError", status |-> st]
SleptAt(a) == \E j \in 1..Len(sleepLog) : sleepLog[j].attempt = a

\* C1: with max_retries = N >= 1 and every GET answered 5xx, one call of
\* _make_single_request never issues more than N GETs, does not end before
\* the N-th, and ends by raising the max-retries error after exactly N GETs.
C1_RetryBound ==
  (max_retries >= 1 /\ \A i \in 1..Len(getLog) : Is5xx(getLog[i].resp))
    => /\ Len(getLog) <= max_retries
       /\ Ended => /\ Len(getLog) = max_retries
                   /\ rpc = "raised"
                   /\ error = MaxRetriesError

C1_Witness ==
  /\ rpc = "raised"
  /\ error = MaxRetriesError
  /\ max_retries = MaxRetries
  /\ Len(getLog) = MaxRetries
  /\ \A i \in 1..Len(getLog) : Is5xx(getLog[i].resp)

\* the server answered the first GET with 401, the re-authentication
\* succeeded, and every later GET of the call was answered 2xx
ReauthScript ==
  /\ Len(getLog) >= 1
  /\ Is401(getLog[1].resp)
  /\ Len(authLog) >= 1
  /\ authLog[1]
  /\ \A i \in 2..Len(getLog) : Is2xx(getLog[i].resp)

ReauthSuccess ==
  /\ rpc = "returned"
  /\ Len(getLog) = 2
  /\ ret.valid
  /\ ret.data = ServerData(pages, reqParams)

\* C2 (as stated): for the answers [401, 2xx] with a re-authentication that
\* succeeds, the call issues exactly 2 GETs and returns the 2xx data.
C2_Original == (Ended /\ ReauthScript) => ReauthSuccess

\* C2 (amended): the same, provided max_retries >= 2; the 401 uses up one
\* attempt, so with max_retries = 1 the call raises the max-retries error.
C2_ReauthRetry == (max_retries >= 2 /\ Ended /\ ReauthScript) => ReauthSuccess

C2_Witness ==
  /\ ReauthScript
  /\ ReauthSuccess
  /\ Is2xx(getLog[2].resp)

\* C3: during one call of _make_single_request authenticate() is invoked at
\* most once, whatever the number of 401 answers.
C3_SingleReauth == Len(authLog) <= 1

\* C4: when a GET is answered 401 and the re-authentication returns false,
\* the call raises the 401 HTTP error at once: that GET is the last one, no
\* wait follows it, and the error is not the max-retries error.
C4_ReauthFailure ==
  (authLog # <<>> /\ ~authLog[Len(authLog)])
    => /\ rpc = "raised"
       /\ error = HTTPErrorOf(401)
       /\ Is401(getLog[Len(getLog)].resp)
       /\ getLog[Len(getLog)].attempt = attempt
       /\ ~SleptAt(attempt)

C4_Witness ==
  /\ authLog # <<>>
  /\ ~authLog[Len(authLog)]
  /\ rpc = "raised"
  /\ Len(getLog) = 1
  /\ max_retries = MaxRetries

IsRetryable(r) == Is429(r) \/ Is5xx(r) \/ IsNet(r)

\* C5: a call whose max_retries attempts were all used up by retryable
\* failures (429, 5xx, transport) raises the max-retries error.
C5_TerminalError ==
  (/\ rpc = "raised"
   /\ max_retries >= 1
   /\ Len(getLog) = max_retries
   /\ \A i \in 1..Len(getLog) : IsRetryable(getLog[i].resp))
    => error = MaxRetriesError

\* C6: a GET answered with a 4xx other than 401 and 429 ends the call at that
\* attempt with the original HTTP error, without wait or re-authentication
\* for it; when it is the first attempt exactly one GET was issued.
C6_ClientError ==
  \A i \in 1..Len(getLog) :
    IsOther4xx(getLog[i].resp)
      => /\ i = Len(getLog)
         /\ rpc = "raised"
         /\ error = HTTPErrorOf(getLog[i].resp.status)
         /\ ~SleptAt(getLog[i].attempt)
         /\ i = 1 => (sleepLog = <<>> /\ authLog = <<>>)

C6_Witness ==
  /\ rpc = "raised"
  /\ Len(getLog) = 1
  /\ IsOther4xx(getLog[1].resp)
  /\ max_retries = MaxRetries

\* C7: every backoff wait lasts 2^attempt, attempt being the 0-based index of
\* the GET that just failed (429, 5xx or transport error), without a cap; a
\* 429 or 5xx answer is always followed by such a wait.
C7_Backoff ==
  /\ \A j \in 1..Len(sleepLog) :
       /\ sleepLog[j].wait = 2 ^ sleepLog[j].attempt
       /\ sleepLog[j].attempt + 1 \in 1..Len(getLog)
       /\ getLog[sleepLog[j].attempt + 1].attempt = sleepLog[j].attempt
       /\ IsRetryable(getLog[sleepLog[j].attempt + 1].resp)
  /\ \A i \in 1..Len(getLog) :
       (Is429(getLog[i].resp) \/ Is5xx(getLog[i].resp)) => SleptAt(i - 1)

C7_Witness ==
  /\ Len(sleepLog) = MaxRetries - 1
  /\ MaxRetries >= 3
  /\ sleepLog[Len(sleepLog)].wait = 2 ^ (MaxRetries - 2)
  /\ \E i \in 1..Len(getLog) : IsNet(getLog[i].resp)
  /\ \E i \in 1..Len(getLog) : Is429(getLog[i].resp)

RECURSIVE AllPageItems(_, _)
AllPageItems(pgs, i) ==
  IF i > Len(pgs) THEN <<>>
  ELSE [j \in 1..pgs[i] |-> <<"item", i, j>>] \o AllPageItems(pgs, i + 1)

RECURSIVE SumCounts(_, _)
SumCounts(pgs, i) == IF i > Len(pgs) THEN 0 ELSE pgs[i] + SumCounts(pgs, i + 1)

\* C8: over a server holding k pages, a paginated fetch requests page i in
\* its i-th page request, never issues more than k page requests, and when
\* it returns it has issued exactly k and holds the items of all pages in
\* page order, their number being the sum of the page sizes.
C8_Pagination ==
  paginated
    => /\ Len(callLog) <= Len(pages)
       /\ \A i \in 1..Len(callLog) :
            DictGet(callLog[i], "pageToken", NoCursor)
              = (IF i = 1 THEN NoCursor ELSE Cursor(i))
       /\ fpc = "done" => /\ Len(callLog) = Len(pages)
                          /\ all_items = AllPageItems(pages, 1)
                          /\ Len(all_items) = SumCounts(pages, 1)

C8_Witness ==
  /\ fpc = "done"
  /\ paginated
  /\ Len(pages) = MaxPages
  /\ MaxPages >= 3
  /\ Len(all_items) >= 2
  /\ pages[2] = 0

BearerOf(t) == IF t = "None" THEN <<>> ELSE <<"Bearer", t>>

\* C9: authenticate() never raises on a success, an HTTP failure or a
\* transport failure; on success it returns true and the token just issued
\* is the stored token and the Authorization header; on failure it returns
\* false and leaves both as they were; nothing else changes them, and every
\* GET carries the header of the token most recently issued.
C9_Authenticate ==
  /\ lastAuth.called =>
       /\ ~lastAuth.raised
       /\ lastAuth.ok = (lastAuth.outcome = "ok")
       /\ lastAuth.ok => /\ lastAuth.postToken = issued
                         /\ lastAuth.postHeader = <<"Bearer", issued>>
       /\ ~lastAuth.ok => /\ lastAuth.postToken = lastAuth.preToken
                          /\ lastAuth.postHeader = lastAuth.preHeader
  /\ token = lastAuth.postToken
  /\ authHeader = lastAuth.postHeader
  /\ authHeader = BearerOf(issued)
  /\ \A i \in 1..Len(getLog) : getLog[i].auth = BearerOf(getLog[i].issued)

C9_Witness ==
  /\ lastAuth.called
  /\ ~lastAuth.ok
  /\ lastAuth.outcome = "ConnectionError"
  /\ lastAuth.preToken \in Tokens
  /\ Len(getLog) = 2
  /\ getLog[1].auth # getLog[2].auth
  /\ getLog[1].auth # <<>>

\* C10: merging a valid record and then the identical record again leaves
\* the store as it was after the first merge, with exactly one node for the
\* record's (label, guid).
C10_MergeIdempotent ==
  mergeHist.repeated
    => /\ nodes = mergeHist.before
       /\ Cardinality({n \in nodes :
            /\ n.label = "Customer"
            /\ <<"guid", DictGet(mergeHist.rec, "guid", None)>> \in n.props}) = 1

C10_Witness ==
  /\ mergeHist.repeated
  /\ DictHas(mergeHist.rec, "businessUnit")
  /\ \E n \in nodes : DictHas(n.props, "businessUnitGuid")
  /\ Cardinality(nodes) = 2

\* the guid of a nested object of a record, as a set of at most one property
RefProp(rec, field, prop) ==
  LET v == DictGet(rec, field, None)
  IN IF v[1] = "dict" /\ DictHas(v[2], "guid")
     THEN {<<prop, DictGet(v[2], "guid", None)>>}
     ELSE {}

\* the attributes a Customer node holds when they come from rec alone
CustomerOf(rec) ==
  {<<"guid", DictGet(rec, "guid", None)>>,
   <<"name", IF DictHas(rec, "name") THEN DictGet(rec, "name", None) ELSE Str("")>>,
   <<"number", Str("")>>,
   <<"isActive", Bool(TRUE)>>,
   <<"lastModified", Str("")>>}
    \cup RefProp(rec, "businessUnit", "businessUnitGuid")
    \cup RefProp(rec, "accountOwner", "accountOwnerGuid")

KeyNodes(label, guid) ==
  {n \in nodes : n.label = label /\ <<"guid", guid>> \in n.props}

\* C11: after a merge of record R, whatever was merged before, there is
\* exactly one Customer node with R's guid and its attributes are those
\* derived from R alone; a nested reference R lacks leaves no <relation>Guid.
C11_LastWriteWins ==
  mergeHist.rec # {}
    => /\ Cardinality(KeyNodes("Customer", DictGet(mergeHist.rec, "guid", None))) = 1
       /\ \A n \in KeyNodes("Customer", DictGet(mergeHist.rec, "guid", None)) :
            n.props = CustomerOf(mergeHist.rec)

C11_Witness ==
  /\ mergeHist.hadRef
  /\ ~DictHas(mergeHist.rec, "businessUnit")
  /\ DictGet(mergeHist.rec, "name", None) = Str("Acme Corp")
  /\ \E n \in KeyNodes("Customer", Str("c-1")) :
       /\ ~DictHas(n.props, "businessUnitGuid")
       /\ <<"name", Str("Acme Corp")>> \in n.props

EntityOps == {"sync_customer", "sync_user"}

\* the nodes a step wrote: created, or changed in some property
Written == nodes' \ nodes

\* C12: a single-record merge writes one node at most, the one keyed by the
\* record's own (label, guid), and leaves exactly one node with that key; no
\* other node and no relationship is created or changed, and a nested
\* sub-object's guid ends up only as a flat <relation>Guid property.
C12_OnlyOwnNode ==
  [][ lastOp'.op \in EntityOps
        => /\ rels' = rels
           /\ Cardinality(Written) <= 1
           /\ \A n \in Written \cup (nodes \ nodes') :
                n.label = lastOp'.label /\ <<"guid", lastOp'.guid>> \in n.props
           /\ {n.id : n \in nodes} \subseteq {n.id : n \in nodes'}
           /\ lastOp'.result = "true"
                => Cardinality({n \in nodes' : /\ n.label = lastOp'.label
                                               /\ <<"guid", lastOp'.guid>> \in n.props}) = 1
           /\ lastOp'.result = "raised" => nodes' = nodes
           /\ \A n \in nodes' : \A q \in n.props :
                /\ q[2][1] # "dict"
                /\ q[1] \notin {"role", "businessUnit", "accountOwner"}
     ]_vars

C12_Witness ==
  /\ lastOp.op = "sync_user" /\ lastOp.result = "true"
  /\ \E n \in nodes : n.label = "User" /\ <<"roleGuid", Str("role-456")>> \in n.props
  /\ \E n \in nodes : n.label = "Customer" /\ <<"accountOwnerGuid", Str("u-9")>> \in n.props
  /\ Cardinality(nodes) = 2
  /\ rels = {}

RECURSIVE Flatten(_)
Flatten(chunks) == IF chunks = <<>> THEN <<>> ELSE Head(chunks) \o Flatten(Tail(chunks))

\* k chunks of at most size items are what n items need: k = ceil(n / size)
IsCeil(k, n, size) == IF n = 0 THEN k = 0 ELSE k * size >= n /\ (k - 1) * size < n

\* a finished or running call has cut its items, in order, into chunks
Chunked ==
  /\ bpc = "returned"
       => /\ batchRet = Len(batchItems)
          /\ Flatten(chunkLog) = batchItems
          /\ IsCeil(Len(chunkLog), Len(batchItems), batch_size)
  /\ bpc = "loop"
       => /\ Flatten(chunkLog) = SubSeq(batchItems, 1, Min(bi, Len(batchItems)))
          /\ total_merged = Len(Flatten(chunkLog))
  /\ bpc = "raised" => batchErr = "StoreError"
  /\ \A j \in 1..Len(chunkLog) : Len(chunkLog[j]) \in 1..batch_size

EmptyBatch ==
  bpc # "idle" /\ batchItems = <<>>
    => bpc = "returned" /\ batchRet = 0 /\ chunkLog = <<>>

\* C13 as stated: for every batch_size, the items are cut in order into
\* ceil(n / batch_size) chunks of at most batch_size, one store call each, the
\* call returns n unless a chunk fails, and an empty list returns 0 without
\* store access.
C13_Original == Chunked /\ EmptyBatch

\* C13: the same for batch_size >= 1.
C13_Chunks == batch_size >= 1 => Chunked /\ EmptyBatch

C13_Witness ==
  /\ bpc = "returned"
  /\ Len(batchItems) = 3
  /\ batch_size = 2
  /\ Len(chunkLog) = 2
  /\ batchRet = 3
  /\ Cardinality(nodes) = 1

GuidOf(item) == DictGet(item, "guid", None)

\* every item of the chunk is in the store after the step, with the values
\* of the last item of the chunk that has its guid
ChunkApplied(batch) ==
  \A j \in 1..Len(batch) :
    (\A k \in (j + 1)..Len(batch) : GuidOf(batch[k]) # GuidOf(batch[j]))
      => \E n \in nodes' :
           /\ n.label = batchLabel
           /\ <<"guid", GuidOf(batch[j])>> \in n.props
           /\ \A key \in SetClauseKeys(batch) :
                DictGet(n.props, key, None) = DictGet(batch[j], key, None)

\* every query of the transaction is in the store after the step
QueriesApplied ==
  \A j \in 1..Len(queries) :
    \E n \in nodes' :
      /\ n.label = "Year"
      /\ <<"year", Num(queries[j])>> \in n.props
      /\ DictHas(n.props, "yearString")

\* C14: a chunk of a batch merge, and an _execute_batch call, is all or
\* nothing: when the store fails the operation raises and the store holds
\* none of the unit's writes, at no moment does it hold a part of them, and
\* when the unit succeeds it holds all of them.
C14_AllOrNothing ==
  [][ /\ chunkLog' # chunkLog /\ chunkLog' # <<>>
        => IF bpc' = "raised"
           THEN nodes' = nodes
           ELSE bpc' = "loop" /\ ChunkApplied(chunkLog'[Len(chunkLog')])
      /\ tpc = "tx"
        => IF tpc' = "returned"
           THEN QueriesApplied /\ execRet' = Len(queries)
           ELSE nodes' = nodes /\ tpc' \in {"tx", "raised"}
    ]_vars

C14_Witness ==
  /\ tpc = "raised"
  /\ ti = 1
  /\ Len(queries) = 2
  /\ \E n \in txNodes : n.label = "Year"
  /\ \A n \in nodes : n.label # "Year"
  /\ \E n \in nodes : n.label = "Project"

\* a dependent node whose customerGuid names no Customer node
Dangling(ns, n) ==
  /\ n.label = "Project"
  /\ DictHas(n.props, "customerGuid")
  /\ \A c \in ns : ~(c.label = "Customer"
                     /\ DictGet(c.props, "guid", None) = DictGet(n.props, "customerGuid", None))

\* C15: a link step creates no relationship for a dependent node whose
\* foreign key names no existing node, creates no node at all, and returns
\* normally instead of raising.
C15_DanglingSkipped ==
  [][ lastOp'.op = "link"
        => /\ nodes' = nodes
           /\ lastOp'.result = "returned"
           /\ \A r \in rels' \ rels :
                /\ \E c \in nodes : c.id = r.src /\ c.label = "Customer"
                /\ \E n \in nodes : n.id = r.dst /\ ~Dangling(nodes, n)
    ]_vars

C15_Witness ==
  /\ lastOp.op = "link" /\ ~lastOp.failed
  /\ linkRet = 1
  /\ Cardinality(rels) = 1
  /\ \E n \in nodes : Dangling(nodes, n) /\ \A r \in rels : r.dst # n.id
  /\ \A n \in nodes : n.label = "Customer" => <<"guid", Str("c-1")>> \in n.props

NoDuplicateRel(rs) ==
  \A r1 \in rs, r2 \in rs :
    r1.type = r2.type /\ r1.src = r2.src /\ r1.dst = r2.dst => r1 = r2

\* C16: a link step leaves at most one relationship per (type, source,
\* target), and a link step that follows a link step changes nothing and
\* returns the same count.
C16_LinkIdempotent ==
  [][ lastOp'.op = "link"
        => /\ NoDuplicateRel(rels')
           /\ lastOp.op = "link" /\ ~lastOp.failed /\ ~lastOp'.failed
                => rels' = rels /\ linkRet' = linkRet
    ]_vars

C16_Witness ==
  /\ lastOp.op = "link" /\ ~lastOp.failed
  /\ linkRet = 2
  /\ Cardinality(rels) = 2
  /\ nextRelId = 3
  /\ Cardinality({r.dst : r \in rels}) = 2

\* C17: a store failure during a node merge, a batch merge or a link is
\* raised to the caller, never turned into a normal return value.
C17_NoSwallow ==
  /\ lastOp.failed => lastOp.result = "raised"
  /\ batchErr = "StoreError" => bpc = "raised"

\* the place of a stage in the order AUTH, INDEX, REFERENCE, CORE_ENTITIES,
\* TRANSACTIONAL, RELATIONSHIPS, METRICS, ANALYTICS, SUMMARY
Rank(s) ==
  CASE s = "AUTH" -> 1
    [] s = "INDEX" -> 2
    [] s = "REFERENCE" -> 3
    [] s = "CORE_ENTITIES" -> 4
    [] s = "TRANSACTIONAL" -> 5
    [] s = "RELATIONSHIPS" -> 6
    [] s = "METRICS" -> 7
    [] s = "ANALYTICS" -> 8
    [] s = "SUMMARY" -> 9

\* the stages a run that is not dry goes through when no stage fails
StagesDue ==
  {"AUTH", "REFERENCE", "CORE_ENTITIES", "TRANSACTIONAL", "RELATIONSHIPS", "SUMMARY"}
    \cup (IF create_indexes THEN {"INDEX"} ELSE {})
    \cup (IF enable_metrics THEN {"METRICS"} ELSE {})
    \cup (IF enable_analytics THEN {"ANALYTICS"} ELSE {})

\* C18: the stages are entered in the fixed order, each at most once and
\* only when the one before it has been left (the stage in progress is the
\* last one entered); a run that returns True has entered every stage due.
C18_StageOrder ==
  /\ \A i \in 1..Len(stageLog), j \in 1..Len(stageLog) :
       i < j => Rank(stageLog[i]) < Rank(stageLog[j])
  /\ stageLog # <<>> => stageLog[1] = "AUTH" /\ stage = stageLog[Len(stageLog)]
  /\ runRet = "True" /\ ~dry_run
       => {stageLog[i] : i \in 1..Len(stageLog)} = StagesDue

C18_Witness ==
  /\ runRet = "True"
  /\ Len(stageLog) = 9
  /\ storeLog = <<"write", "write", "close">>

\* C19: when authentication fails the run ends with False, having entered
\* no stage but AUTH and written nothing to the store.
C19_AuthFailureStops ==
  lastAuth.called /\ ~lastAuth.ok
    => /\ stageLog = <<"AUTH">>
       /\ \A i \in 1..Len(storeLog) : storeLog[i] # "write"
       /\ nodes = {} /\ rels = {}
       /\ runPc \in {"finally", "done"}
       /\ pending = "False"
       /\ runPc = "done" => runRet = "False"

C19_Witness ==
  /\ lastAuth.called /\ ~lastAuth.ok
  /\ runPc = "done"
  /\ runRet = "False"
  /\ ~dry_run /\ create_indexes

StagesEntered == {stageLog[i] : i \in 1..Len(stageLog)}

WorkingStages ==
  {"INDEX", "REFERENCE", "CORE_ENTITIES", "TRANSACTIONAL", "RELATIONSHIPS",
   "METRICS", "ANALYTICS"}

\* C21: a dry run enters none of the stages INDEX .. ANALYTICS, whatever
\* create_indexes and the feature flags are, and performs no store write.
C21_DryRun ==
  dry_run
    => /\ StagesEntered \cap WorkingStages = {}
       /\ \A i \in 1..Len(storeLog) : storeLog[i] # "write"
       /\ nodes = {} /\ rels = {}

C21_Witness ==
  /\ dry_run /\ create_indexes /\ enable_metrics /\ enable_analytics
  /\ runRet = "True"
  /\ stageLog = <<"AUTH", "SUMMARY">>

\* position of a stage in the log (0: not entered)
LogIndex(s) ==
  IF s \in StagesEntered THEN CHOOSE i \in 1..Len(stageLog) : stageLog[i] = s ELSE 0

\* C22: METRICS is entered only if enable_metrics is set and the run is not
\* dry, ANALYTICS only if enable_analytics is set and the run is not dry, and
\* a run that reaches SUMMARY has entered each of them whose flag is set;
\* when either is entered, RELATIONSHIPS was entered before it and has been
\* left.
C22_FeatureFlags ==
  /\ "METRICS" \in StagesEntered => enable_metrics /\ ~dry_run
  /\ "ANALYTICS" \in StagesEntered => enable_analytics /\ ~dry_run
  /\ "SUMMARY" \in StagesEntered /\ ~dry_run
       => /\ enable_metrics => "METRICS" \in StagesEntered
          /\ enable_analytics => "ANALYTICS" \in StagesEntered
  /\ \A s \in {"METRICS", "ANALYTICS"} :
       s \in StagesEntered
         => /\ LogIndex("RELATIONSHIPS") > 0
            /\ LogIndex("RELATIONSHIPS") < LogIndex(s)
            /\ stage # "RELATIONSHIPS"

C22_Witness ==
  /\ runRet = "True"
  /\ enable_analytics /\ ~enable_metrics
  /\ "ANALYTICS" \in StagesEntered
  /\ "METRICS" \notin StagesEntered
  /\ "RELATIONSHIPS" \in StagesEntered

\* C24: an Exception raised by one of the stages INDEX .. ANALYTICS ends the
\* run: that stage is the last one entered, SUMMARY is not entered, and the
\* run returns False.
C24_StageFailureFatal ==
  excIn.exc = "Exception" /\ excIn.stage \in WorkingStages
    => /\ stageLog[Len(stageLog)] = excIn.stage
       /\ "SUMMARY" \notin StagesEntered
       /\ runPc \in {"finally", "done"}
       /\ pending = "False"
       /\ runPc = "done" => runRet = "False"

C24_Witness ==
  /\ excIn = [stage |-> "CORE_ENTITIES", exc |-> "Exception"]
  /\ runPc = "done"
  /\ runRet = "False"
  /\ storeLog = <<"write", "close">>

CountOf(log, what) == Cardinality({i \in 1..Len(log) : log[i] = what})

\* C23: in the entity sync loop an item whose sync raises adds one to the
\* failed counter and the loop goes on to the next item; the loop never
\* raises, and when it has returned over n items, synced + failed = n.
C23_ItemFailureCounted ==
  /\ lpc # "raised"
  /\ Len(itemLog) = li
  /\ customers_synced = CountOf(itemLog, "synced")
  /\ customers_failed = CountOf(itemLog, "failed")
  /\ customers_synced + customers_failed = li
  /\ lpc = "returned" => li = Len(customers)

C23_Witness ==
  /\ lpc = "returned"
  /\ Len(customers) = 3
  /\ itemLog = <<"synced", "failed", "synced">>
  /\ customers_synced = 2
  /\ customers_failed = 1
  /\ Cardinality(nodes) = 2

Incoming(n) == {r \in rels : r.type = "CONTAINS" /\ r.dst = n.id}
NodeOf(id) == CHOOSE n \in nodes : n.id = id
NumProp(n, key) == DictGet(n.props, key, Num(0))[2]

\* the period that contains n by the calendar: year y holds its quarters,
\* quarter q of y the months 3q - 2 .. 3q of y, a month its days
CalendarParent(p, n) ==
  IF n.label = "Quarter"
  THEN p.label = "Year" /\ NumProp(p, "year") = NumProp(n, "year")
  ELSE IF n.label = "Month"
  THEN /\ p.label = "Quarter"
       /\ NumProp(p, "year") = NumProp(n, "year")
       /\ NumProp(n, "month") \in (3 * NumProp(p, "quarter") - 2)..(3 * NumProp(p, "quarter"))
  ELSE /\ p.label = "Month"
       /\ NumProp(p, "year") = NumProp(n, "year")
       /\ NumProp(p, "month") = NumProp(n, "month")

\* C25: after any sequence of create_year_nodes, create_quarter_nodes,
\* create_month_nodes and create_day_nodes calls, every Quarter, Month and
\* Day node has exactly one incoming CONTAINS edge, and it comes from the
\* Year, Quarter or Month that contains it by the calendar.
C25_StrictTree ==
  \A n \in nodes :
    n.label \in {"Quarter", "Month", "Day"} =>
      /\ Cardinality(Incoming(n)) = 1
      /\ \A r \in Incoming(n) :
           /\ \E p \in nodes : p.id = r.src
           /\ CalendarParent(NodeOf(r.src), n)

C25_Witness ==
  /\ \E n \in nodes : n.label = "Day" /\ <<"id", Str("2020-02-29")>> \in n.props
  /\ \E n \in nodes : n.label = "Day" /\ <<"id", Str("2020-03-01")>> \in n.props
  /\ \E n \in nodes : n.label = "Day" /\ <<"id", Str("2020-12-31")>> \in n.props
  /\ Cardinality({n \in nodes : n.label = "Day"}) = 6
  /\ Cardinality({n \in nodes : n.label = "Month"}) = 12
  /\ Cardinality({n \in nodes : n.label = "Quarter"}) = 4
  /\ Cardinality({r \in rels : r.type = "CONTAINS"}) = 22

LinkedFacts(p, label) ==
  {f \in nodes : /\ f.label = label
                 /\ \E r \in rels : r.type = "RECORDED_IN" /\ r.src = f.id /\ r.dst = p.id}

RecordedEdges(f, m) ==
  {r \in rels : r.type = "RECORDED_IN" /\ r.src = f.id /\ r.dst = m.id}

\* C27: after link_facts_to_periods ran against a store that is up, every
\* fact of the entity with a date whose Month node exists has exactly one
\* RECORDED_IN edge to the Month of its date.
C27_FactsLinked ==
  analyticsOp.op = "link_facts_to_periods" /\ analyticsOp.up =>
    \A f \in nodes : \A m \in nodes :
      /\ f.label = analyticsOp.label
      /\ m.label = "Month"
      /\ \E d \in {"eventDate", "invoiceDate"} :
           /\ DictHas(f.props, d)
           /\ <<"id", Str(MonthIdOf(DictGet(f.props, d, None)))>> \in m.props
      => Cardinality(RecordedEdges(f, m)) = 1

CalcOps ==
  {"calculate_period_metrics", "calculate_customer_summaries",
   "calculate_user_summaries", "calculate_project_metrics"}

\* C28: a recomputation called with an empty key list returns 0 without
\* opening a session and leaves the store as it is; called without a list
\* (None) against a store that is up, it writes the values of every node of
\* its label and returns their number.
C28_EmptyListNoOp ==
  [][/\ analyticsOp'.op \in CalcOps /\ analyticsOp'.keys = List(<<>>) =>
          /\ analyticsOp'.ret = 0
          /\ ~analyticsOp'.opened
          /\ nodes' = nodes
          /\ rels' = rels
     /\ analyticsOp'.op \in CalcOps /\ analyticsOp'.keys = None /\ analyticsOp'.up =>
          /\ analyticsOp'.ret = Cardinality({n \in nodes : n.label = analyticsOp'.label})
          /\ \A n \in nodes' :
               n.label = analyticsOp'.label =>
                 n.props = SetAll(n.props,
                                  MetricAssigns(analyticsOp'.op, nodes', rels', n, Now))
    ]_vars

C28_Witness ==
  /\ analyticsOp.op = "calculate_customer_summaries"
  /\ analyticsOp.keys = List(<<>>)
  /\ analyticsOp.ret = 0
  /\ ~analyticsOp.opened
  /\ \A n \in nodes : n.label = "Customer" => ~DictHas(n.props, "projectCount")
  /\ \A n \in nodes : n.label = "Project" => DictHas(n.props, "lastMetricsUpdate")
  /\ \A n \in nodes : n.label = "Quarter" => <<"totalHours", Num(0)>> \in n.props

\* the periods the last calculate_period_metrics call named
Targeted(p, op) ==
  /\ p.label = op.label
  /\ op.keys # None => \E j \in 1..Len(op.keys[2]) : <<"id", Str(op.keys[2][j])>> \in p.props

\* the sums over the facts linked to p
HoursOf(p) ==
  LET S == LinkedFacts(p, "WorkHour")
  IN SumOf([f \in S |-> NumProp(f, "quantity")], S)
HoursWhere(p, flag) ==
  LET S == {f \in LinkedFacts(p, "WorkHour") : <<"isBillable", Bool(flag)>> \in f.props}
  IN SumOf([f \in S |-> NumProp(f, "quantity")], S)
RevenueOf(p) ==
  LET S == LinkedFacts(p, "Invoice")
  IN SumOf([f \in S |-> NumProp(f, "totalAmount")], S)
CostOf(p) ==
  LET S == LinkedFacts(p, "WorkHour")
  IN SumOf([f \in S |-> NumProp(f, "quantity") * NumProp(f, "unitCost")], S)

\* the stored values of p are those of its linked facts
Recomputed(p) ==
  /\ <<"totalHours", Num(HoursOf(p))>> \in p.props
  /\ <<"billableHours", Num(HoursWhere(p, TRUE))>> \in p.props
  /\ <<"nonBillableHours", Num(HoursWhere(p, FALSE))>> \in p.props
  /\ <<"totalRevenue", Num(RevenueOf(p))>> \in p.props
  /\ <<"totalCost", Num(CostOf(p))>> \in p.props
  /\ <<"margin", Num(RevenueOf(p) - CostOf(p))>> \in p.props

\* C29: after calculate_period_metrics has written a period, its totalHours
\* is the sum of quantity over the facts linked to it by RECORDED_IN,
\* billableHours the sum over those with isBillable true, nonBillableHours
\* the sum over those with isBillable false, and margin is totalRevenue
\* minus totalCost; a period without linked fact holds 0 for all of them.
C29_PeriodSums ==
  analyticsOp.op = "calculate_period_metrics" /\ analyticsOp.up /\ analyticsOp.opened =>
    \A p \in nodes : Targeted(p, analyticsOp) => Recomputed(p)

C29_Witness ==
  /\ analyticsOp.op = "calculate_period_metrics"
  /\ analyticsOp.up
  /\ \E p \in nodes :
       /\ <<"id", Str("2020-01")>> \in p.props
       /\ Cardinality(LinkedFacts(p, "WorkHour")) = 2
       /\ Cardinality(LinkedFacts(p, "Invoice")) = 1
       /\ <<"totalHours", Num(8)>> \in p.props
       /\ <<"billableHours", Num(5)>> \in p.props
       /\ <<"nonBillableHours", Num(3)>> \in p.props
       /\ <<"margin", Num(90)>> \in p.props
  /\ \E p \in nodes :
       /\ <<"id", Str("2020-03")>> \in p.props
       /\ <<"totalHours", Num(0)>> \in p.props
       /\ <<"margin", Num(0)>> \in p.props

\* C30: calculate_period_metrics with a list of periods writes, for each
\* listed period, the values of its current links whatever it held before,
\* and leaves every other node, and the relationships, as they were.
C30_ScopedReplace ==
  [][analyticsOp'.op = "calculate_period_metrics" /\ analyticsOp'.up
       /\ HasWhere(analyticsOp'.keys)
     => /\ rels' = rels
        /\ \A n \in nodes : ~Targeted(n, analyticsOp') => n \in nodes'
        /\ \A n \in nodes' : Targeted(n, analyticsOp') =>
             /\ \E old \in nodes : old.id = n.id /\ Targeted(old, analyticsOp')
             /\ Recomputed(n)
    ]_vars

C30_Witness ==
  /\ analyticsOp.op = "calculate_period_metrics"
  /\ analyticsOp.keys = List(<<"2020-01">>)
  /\ analyticsOp.up
  /\ \E p \in nodes :
       /\ <<"id", Str("2020-01")>> \in p.props
       /\ <<"totalHours", Num(8)>> \in p.props
  /\ \E p \in nodes :
       /\ <<"id", Str("2020-02")>> \in p.props
       /\ LinkedFacts(p, "WorkHour") # {}
       /\ <<"totalHours", Num(0)>> \in p.props

\* the field of the record holds a map that has a guid entry
HoldsGuidMap(data, field) ==
  \E p \in data : p[1] = field /\ p[2][1] = "dict" /\ \E q \in p[2][2] : q[1] = "guid"
GuidOfMap(data, field) ==
  (CHOOSE q \in (CHOOSE p \in data : p[1] = field)[2][2] : q[1] = "guid")[2]

\* C31: extract_nested_guid never raises; it returns the guid of the map the
\* field holds when that map has one, and None when the field is missing,
\* null, an empty map, a map without guid or not a map at all.
C31_ExtractTotal ==
  extractOp.called =>
    /\ ~extractOp.raised
    /\ extractOp.value = IF HoldsGuidMap(extractOp.data, extractOp.field)
                         THEN GuidOfMap(extractOp.data, extractOp.field)
                         ELSE None

C31_Witness ==
  /\ extractOp.called
  /\ <<extractOp.field, Str("c-1")>> \in extractOp.data
  /\ extractOp.value = None

\* C32: a fetch with paginated = false makes one page request at most, and
\* when it returns it has made exactly one and holds the items of the first
\* page only, whether or not the answer carried a cursor.
C32_PaginationDisabled ==
  ~paginated
    => /\ Len(callLog) <= 1
       /\ fpc = "done" => /\ Len(callLog) = 1
                          /\ all_items = PageItems(pages, 1)

C32_Witness ==
  /\ fpc = "done"
  /\ ~paginated
  /\ Len(pages) >= 2
  /\ next_page_token = Cursor(2)
  /\ Len(all_items) = 1

\* C33: whatever the answers (success, 401 with either outcome of the
\* re-authentication, 429, 5xx, other 4xx, transport error), a call of
\* _make_single_request has issued at most max_retries GETs at any time, it
\* ends, and with max_retries = 0 it ends raising the max-retries error
\* without a GET.
C33_Terminates ==
  /\ [](Len(getLog) <= max_retries)
  /\ []((max_retries = 0 /\ Ended) => (getLog = <<>> /\ error = MaxRetriesError))
  /\ (rpc = "loop" ~> Ended)

\* a call that used all its attempts on 401s, each re-authenticated
C33_Witness ==
  /\ rpc = "raised"
  /\ max_retries >= 2
  /\ Len(getLog) = max_retries
  /\ \A i \in 1..Len(getLog) : Classify(getLog[i].resp) = "unauthorized"
  /\ error = MaxRetriesError

\* C34: every backoff wait of a call is followed by another attempt of the
\* same call: no wait is made in the last pass the range allows, so a call
\* whose last attempt failed raises without having waited after it.
C34_WaitOnlyBeforeRetry ==
  \A i \in 1..Len(sleepLog) : sleepLog[i].attempt < max_retries - 1

\* C35: in a paginated fetch the first page request carries the caller's
\* params and no pageToken, the request after page k carries the caller's
\* params plus the cursor the server returned with page k and nothing else,
\* and no step of _make_request changes the caller's params.
C35_CursorThreading ==
  /\ [](paginated =>
          \A i \in 1..Len(callLog) :
            callLog[i] = IF i = 1 THEN params
                         ELSE DictSet(params, "pageToken",
                                      ServerCursor(pages, callLog[i - 1])))
  /\ [][fpc = "loop" => params' = params]_vars

C35_Witness ==
  /\ fpc = "done"
  /\ paginated
  /\ Len(callLog) = 3
  /\ params # {}
  /\ callLog[3] = params \cup {<<"pageToken", Cursor(3)>>}

GuidsOf(ns) == {DictGet(n.props, "guid", None) : n \in ns}
\* the guids of the first n items of the current batch call
PrefixGuids(n) == {DictGet(batchItems[j], "guid", None) : j \in 1..n}

\* C36: a chunk that fails ends the call at once and changes nothing; the
\* call that raised on its chunk k attempted chunks 1..k and no other, the
\* store holds a node for every item of chunks 1..k-1, none for an item of
\* chunk k or later that is not among them, and every node outside chunks
\* 1..k-1 is as it was when the call started.
C36_PrefixCommitted ==
  /\ []((bpc = "raised" /\ batchErr = "StoreError") =>
          LET k == Len(chunkLog)
              done == PrefixGuids((k - 1) * batch_size)
          IN /\ k >= 1
             /\ \A j \in 1..k :
                  chunkLog[j] = Slice(batchItems, (j - 1) * batch_size, batch_size)
             /\ GuidsOf(nodes) = GuidsOf(batchBefore) \cup done
             /\ {n \in nodes : DictGet(n.props, "guid", None) \notin done}
                  = {n \in batchBefore : DictGet(n.props, "guid", None) \notin done})
  /\ [][(bpc = "loop" /\ chunkLog' # chunkLog /\ total_merged' = total_merged)
          => (bpc' = "raised" /\ nodes' = nodes)]_vars

\* the second chunk failed after the first had created a node, with a third
\* item left over
C36_Witness ==
  /\ bpc = "raised"
  /\ batchErr = "StoreError"
  /\ batch_size = 1
  /\ Len(chunkLog) = 2
  /\ Len(batchItems) = 3
  /\ Cardinality(nodes) = Cardinality(batchBefore) + 1

\* the reference: each item upserted on its own, in list order, with every
\* attribute of that item
RECURSIVE UpsertEach(_, _, _, _)
UpsertEach(ns, id, label, its) ==
  IF its = <<>> THEN ns
  ELSE LET item == Head(its)
           after == MergeAndSet(ns, id, label, DictGet(item, "guid", None),
                                ItemAssigns({q[1] : q \in item} \ {"guid"}, item))
       IN UpsertEach(after, id + 1, label, Tail(its))
Shape(ns) == {[label |-> n.label, props |-> n.props] : n \in ns}

\* C37: a batch_merge_nodes call that returned left the store as upserting
\* its items one by one in list order would have, whatever the attribute
\* keys of the items and whether or not a guid repeats.
C37_BatchEqualsUpserts ==
  (bpc = "returned" /\ batch_size >= 1)
    => Shape(nodes) = Shape(UpsertEach(batchBefore, nextId, batchLabel, batchItems))

FactLabels == {e[1] : e \in FactEntities}
RecordedFrom(f) == {r \in rels : r.type = "RECORDED_IN" /\ r.src = f.id}
\* the Month nodes of the date the fact holds now
MonthsOf(f) ==
  {m \in nodes :
     /\ m.label = "Month"
     /\ \E e \in FactEntities :
          /\ e[1] = f.label
          /\ DictHas(f.props, e[2])
          /\ <<"id", Str(MonthIdOf(DictGet(f.props, e[2], None)))>> \in m.props}
\* a fact has one RECORDED_IN edge at most, and none to a Month other than
\* that of its date
NoStaleEdge ==
  \A f \in nodes :
    f.label \in FactLabels =>
      /\ Cardinality(RecordedFrom(f)) <= 1
      /\ \A r \in RecordedFrom(f) : \E m \in MonthsOf(f) : r.dst = m.id
\* the facts of the label that have a date whose Month exists have their edge
Linked(label) ==
  \A f \in nodes :
    (f.label = label /\ MonthsOf(f) # {}) => Cardinality(RecordedFrom(f)) = 1

C39_HoursSplit ==
  analyticsOp.op = "calculate_period_metrics" /\ analyticsOp.up /\ analyticsOp.opened =>
    \A p \in nodes :
      Targeted(p, analyticsOp) =>
        NumProp(p, "totalHours") = NumProp(p, "billableHours") + NumProp(p, "nonBillableHours")

\* C40: a construction of the orchestrator that failed with an invalid API
\* or store configuration has left no store connection open, and the connection of one that succeeded is closed when
\* its run is done.
C40_NoLeak ==
  /\ (/\ ctorOp.called
      /\ ctorOp.raised
      /\ ~(ApiConfigValid(ctorOp.api) /\ Neo4jConfigValid(ctorOp.neo))) => ~connOpen
  /\ (ctorOp.called /\ runPc = "done") => ~connOpen

====
